---- MODULE Spec2Model ----
(***************************************************************************)
(* Model of sam/orchestration/planner.py: the DynamicPlanner, its skill    *)
(* registry, its plan cache and the create_plan state machine.             *)
(*                                                                         *)
(* Conventions                                                             *)
(*  - confidences are integers in hundredths (0.6 is 60); a confidence     *)
(*    that is not a number (a JSON string, null) is the record             *)
(*    [kind |-> "other", val |-> 0];                                         *)
(*  - a text (query, profile, model response) is a sequence of tokens;     *)
(*    a multi-word keyword is a sequence of word tokens and `in` is        *)
(*    contiguous-subsequence containment;                                  *)
(*  - md5 is taken to be injective: a cache key is the hashed string;      *)
(*  - time is an integer clock in seconds;                                 *)
(*  - the request's intermediate-data bag holds either no search_context   *)
(*    or a dict, as the planner itself writes it.                          *)
(***************************************************************************)
EXTENDS Integers, Sequences, FiniteSets, TLC

\* ------------------------------------------------------------------ bounds
MaxCalls == 2
MaxRegs == 2
MaxTime == 2

\* ------------------------------------------------------- program constants
CacheConfidenceThreshold == 50
RuleBasedConfidence == 60
ErrorConfidence == 30
DefaultLLMConfidence == 80
GraphMaxResults == 15

\* --------------------------------------------------------------- processes
Procs == {1, 2}

SeqProcs == {1}

\* ------------------------------------------------------------- vocabulary
SkillNamesInOrder ==
  <<"ConflictDetectorSkill", "ImplicitKnowledgeSkill", "MemoryRetrievalSkill",
    "ResponseGenerationSkill", "UnknownSkill">>

\* sorted(S) for a set of skill names: Python orders str by code point, which
\* is the order of SkillNamesInOrder.
SortedNames(S) == SelectSeq(SkillNamesInOrder, LAMBDA n : n \in S)

\* str.lower() on a word token.
LowerTok(t) ==
  CASE t = "Compare" -> "compare"
    [] t = "How" -> "how"
    [] t = "Explain" -> "explain"
    [] OTHER -> t

Lower(q) == [i \in 1..Len(q) |-> LowerTok(q[i])]

\* `indicator in query_lower`
Contains(q, ind) ==
  \E i \in 1..(Len(q) - Len(ind) + 1) : SubSeq(q, i, i + Len(ind) - 1) = ind

\* sum(1 for indicator in indicators if indicator in query_lower)
Score(q, inds) == Cardinality({ind \in inds : Contains(q, ind)})

\* any(indicator in query_lower for indicator in indicators)
AnyIn(q, inds) == \E ind \in inds : Contains(q, ind)

Num(v) == [kind |-> "num", val |-> v]

NotANumber == [kind |-> "other", val |-> 0]


\* ------------------------------------------------------------------- state
VARIABLES
  config,             \* self._config: enable_plan_caching, plan_cache_ttl, max_plan_length
  curriculum,         \* self._curriculum is set
  llm_model,          \* self._llm_model is set
  graph_database,     \* self._graph_database is set
  registered_skills,  \* self._registered_skills: name -> skill_version
  plan_cache,         \* self._plan_cache: query hash -> PlanCacheEntry
  now,                \* datetime.now()
  pc,                 \* per call: the statement create_plan is at
  uif,                \* per call: the SAM_UIF passed in
  result,             \* per call: the PlanGenerationResult (or NoResult)
  local,              \* per call: query_hash, response, exception; the cache and
                      \*   the request's bag as the call found them
  trail,              \* per call: the stages the call has entered, in order
  outdated,           \* keys of the entries stored before the latest registry change
  calls,              \* number of create_plan calls started
  regs,               \* number of registry operations made
  stats               \* the dictionary get_cache_stats returned last

vars ==
  <<config, curriculum, llm_model, graph_database, registered_skills, plan_cache,
    now, pc, uif, result, local, trail, outdated, calls, regs, stats>>

\* ----------------------------------------------------------- request values
Absent == "<absent>"

EmptyDict == [retrieval_mode |-> Absent, graph_depth |-> 0, max_results |-> 0]

\* uif.intermediate_data: the search_context entry, and the other keys the
\* caller keeps in the dictionary.
EmptyBag ==
  [has_search_context |-> FALSE, search_context |-> EmptyDict, other_keys |-> {}]

Unset == "<unset>"

NewUIF(q, prof, bag) ==
  [input_query |-> q, active_profile |-> prof, intermediate_data |-> bag,
   curriculum_level |-> Unset, complexity_score |-> 0,
   reasoning_strategy |-> Unset, estimated_effort |-> 0]

NoUIF == NewUIF(<<>>, <<>>, EmptyBag)

Reason(kind, count, parts) == [kind |-> kind, count |-> count, parts |-> parts]

NoResult ==
  [plan |-> <<>>, confidence |-> Num(0), reasoning |-> Reason("none", 0, <<>>),
   cache_hit |-> FALSE, fallback_used |-> FALSE, valid |-> FALSE]

PlanGenerationResult(plan, confidence, reasoning, cache_hit, fallback_used) ==
  [plan |-> plan, confidence |-> confidence, reasoning |-> reasoning,
   cache_hit |-> cache_hit, fallback_used |-> fallback_used, valid |-> TRUE]

PlanCacheEntry(plan, confidence, created_at, usage_count, query_hash, skill_context) ==
  [plan |-> plan, confidence |-> confidence, created_at |-> created_at,
   usage_count |-> usage_count, query_hash |-> query_hash,
   skill_context |-> skill_context]

\* get_cache_stats has not been called.
NoStats == [total_entries |-> 0, total_usage |-> 0, average_usage |-> Num(0),
            cache_enabled |-> FALSE, taken |-> FALSE]

\* usage_count, dict_size and expired_keys are the values a call holds between
\* the statements of the increment and of the sweep; they matter only when
\* another call runs in between.
NoLocal ==
  [query_hash |-> <<>>, response |-> <<>>, exc |-> "", raised_at |-> "",
   cache_at_start |-> <<>>, bag_at_start |-> EmptyBag,
   usage_count |-> 0, dict_size |-> 0, expired_keys |-> {}]

\* ------------------------------------------------------ graph-aware planning
graph_indicators ==
  {<<"how">>, <<"why">>, <<"what", "causes">>, <<"relationship">>, <<"connection">>,
   <<"related", "to">>, <<"because">>, <<"leads", "to">>, <<"results", "in">>,
   <<"depends", "on">>, <<"influences">>, <<"who", "works">>, <<"where", "is">>,
   <<"when", "did">>, <<"which", "company">>, <<"what", "technology">>,
   <<"connects">>, <<"links">>, <<"associates">>, <<"correlates">>, <<"impacts">>}

vector_indicators ==
  {<<"similar", "to">>, <<"like">>, <<"about">>, <<"regarding">>, <<"concerning">>,
   <<"find", "documents">>, <<"search", "for">>, <<"show", "me">>,
   <<"tell", "me", "about">>, <<"content">>, <<"text">>, <<"document">>, <<"file">>,
   <<"information">>}

hybrid_indicators ==
  {<<"explain">>, <<"analyze">>, <<"compare">>, <<"contrast">>, <<"overview">>,
   <<"summary">>, <<"comprehensive">>, <<"detailed">>, <<"complete", "picture">>,
   <<"understand">>, <<"breakdown">>, <<"elaborate">>, <<"describe", "fully">>}

ModeByScores(graph_score, vector_score, hybrid_score) ==
  IF hybrid_score > 0 \/ (graph_score > 0 /\ vector_score > 0) THEN "HYBRID"
  ELSE IF graph_score > vector_score THEN "GRAPH"
  ELSE IF vector_score > 0 THEN "VECTOR"
  ELSE "AUTO"

\* Mutant: the scores decide the mode even without a graph backend.
ModeIgnoringBackend(query_lower) ==
  ModeByScores(Score(query_lower, graph_indicators),
               Score(query_lower, vector_indicators),
               Score(query_lower, hybrid_indicators))

_determine_retrieval_mode(query_lower) ==
  IF ~graph_database THEN "VECTOR"
  ELSE ModeByScores(Score(query_lower, graph_indicators),
                    Score(query_lower, vector_indicators),
                    Score(query_lower, hybrid_indicators))

deep_indicators ==
  {<<"comprehensive">>, <<"complete">>, <<"all">>, <<"everything">>, <<"thorough">>,
   <<"detailed">>, <<"full", "picture">>, <<"entire">>, <<"whole">>, <<"extensive">>}

depth_multi_hop_indicators ==
  {<<"chain">>, <<"sequence">>, <<"path">>, <<"route">>, <<"journey">>, <<"process">>,
   <<"step", "by", "step">>, <<"how", "does">>, <<"what", "leads">>, <<"cascade">>,
   <<"ripple">>}

simple_indicators ==
  {<<"direct">>, <<"immediate">>, <<"first">>, <<"primary">>, <<"main">>, <<"basic">>}

\* Mutant: the multi-hop terms are looked for before the deep ones.
DepthMultiHopFirst(query_lower) ==
  IF Score(query_lower, depth_multi_hop_indicators) > 0 THEN 3
  ELSE IF Score(query_lower, deep_indicators) > 0 THEN 4
  ELSE IF Score(query_lower, simple_indicators) > 0 THEN 1
  ELSE 2

_determine_graph_depth(query_lower) ==
  IF Score(query_lower, deep_indicators) > 0 THEN 4
  ELSE IF Score(query_lower, depth_multi_hop_indicators) > 0 THEN 3
  ELSE IF Score(query_lower, simple_indicators) > 0 THEN 1
  ELSE 2

\* Mutant: "versus" is not among the comparison terms.
ConflictTermsWithoutVersus ==
  {<<"compare">>, <<"different">>, <<"conflicting">>, <<"sources">>}

\* ------------------------------------------------------- rule-based planner
conflict_indicators ==
  {<<"compare">>, <<"versus">>, <<"different">>, <<"conflicting">>, <<"sources">>}

multi_hop_indicators ==
  {<<"how", "does">>, <<"what", "is", "the", "relationship">>, <<"connect">>,
   <<"link">>, <<"relate">>, <<"why", "does">>, <<"what", "causes">>, <<"how", "are">>,
   <<"what", "connects">>, <<"bridge">>, <<"underlying">>, <<"implicit">>,
   <<"hidden", "connection">>, <<"between">>}

Registered(name) == name \in DOMAIN registered_skills

_get_default_fallback_plan ==
  LET default_plan ==
        (IF Registered("MemoryRetrievalSkill") THEN <<"MemoryRetrievalSkill">> ELSE <<>>)
        \o (IF Registered("ResponseGenerationSkill")
            THEN <<"ResponseGenerationSkill">> ELSE <<>>)
  IN IF default_plan # <<>> THEN default_plan ELSE <<"ResponseGenerationSkill">>

\* Mutant: the depth and the result limit are written whatever the mode.
SearchContextAlwaysGraph(bag, query_lower) ==
  LET retrieval_mode == _determine_retrieval_mode(query_lower)
      sc0 == IF bag.has_search_context THEN bag.search_context ELSE EmptyDict
  IN [sc0 EXCEPT !.retrieval_mode = retrieval_mode,
                 !.graph_depth = _determine_graph_depth(query_lower),
                 !.max_results = GraphMaxResults]

\* The search_context the planner leaves in the bag (lines 428-436).
FallbackSearchContext(bag, query_lower) ==
  LET retrieval_mode == _determine_retrieval_mode(query_lower)
      sc0 == IF bag.has_search_context THEN bag.search_context ELSE EmptyDict
      sc1 == [sc0 EXCEPT !.retrieval_mode = retrieval_mode]
  IN IF retrieval_mode \in {"GRAPH", "HYBRID"} /\ graph_database
     THEN [sc1 EXCEPT !.graph_depth = _determine_graph_depth(query_lower),
                      !.max_results = GraphMaxResults]
     ELSE sc1

\* Mutant: the planner puts a dictionary of its own in place of the caller's.
FallbackBagReplaced(bag, query_lower) ==
  IF Registered("MemoryRetrievalSkill")
  THEN [EmptyBag EXCEPT !.has_search_context = TRUE,
                        !.search_context = FallbackSearchContext(bag, query_lower)]
  ELSE bag

FallbackBag(bag, query_lower) ==
  IF Registered("MemoryRetrievalSkill")
  THEN [bag EXCEPT !.has_search_context = TRUE,
                   !.search_context = FallbackSearchContext(bag, query_lower)]
  ELSE bag

\* Mutant: the implicit-knowledge stage runs after the response stage.
StagePlanImplicitLast(query_lower) ==
  (IF Registered("MemoryRetrievalSkill") THEN <<"MemoryRetrievalSkill">> ELSE <<>>)
  \o (IF AnyIn(query_lower, conflict_indicators) /\ Registered("ConflictDetectorSkill")
      THEN <<"ConflictDetectorSkill">> ELSE <<>>)
  \o (IF Registered("ResponseGenerationSkill")
      THEN <<"ResponseGenerationSkill">> ELSE <<>>)
  \o (IF AnyIn(query_lower, multi_hop_indicators) /\ Registered("ImplicitKnowledgeSkill")
      THEN <<"ImplicitKnowledgeSkill">> ELSE <<>>)

\* Mutant: the implicit-knowledge stage is added whenever its skill is registered.
StagePlanImplicitAlways(query_lower) ==
  (IF Registered("MemoryRetrievalSkill") THEN <<"MemoryRetrievalSkill">> ELSE <<>>)
  \o (IF AnyIn(query_lower, conflict_indicators) /\ Registered("ConflictDetectorSkill")
      THEN <<"ConflictDetectorSkill">> ELSE <<>>)
  \o (IF Registered("ImplicitKnowledgeSkill")
      THEN <<"ImplicitKnowledgeSkill">> ELSE <<>>)
  \o (IF Registered("ResponseGenerationSkill")
      THEN <<"ResponseGenerationSkill">> ELSE <<>>)

\* Mutant: the conflict stage comes before the retrieval stage.
StagePlanConflictFirst(query_lower) ==
  (IF AnyIn(query_lower, conflict_indicators) /\ Registered("ConflictDetectorSkill")
      THEN <<"ConflictDetectorSkill">> ELSE <<>>)
  \o (IF Registered("MemoryRetrievalSkill") THEN <<"MemoryRetrievalSkill">> ELSE <<>>)
  \o (IF AnyIn(query_lower, multi_hop_indicators) /\ Registered("ImplicitKnowledgeSkill")
      THEN <<"ImplicitKnowledgeSkill">> ELSE <<>>)
  \o (IF Registered("ResponseGenerationSkill")
      THEN <<"ResponseGenerationSkill">> ELSE <<>>)

\* The plan built by stages 1-5 (lines 417-463).
FallbackStagePlan(query_lower) ==
  (IF Registered("MemoryRetrievalSkill") THEN <<"MemoryRetrievalSkill">> ELSE <<>>)
  \o (IF AnyIn(query_lower, conflict_indicators) /\ Registered("ConflictDetectorSkill")
      THEN <<"ConflictDetectorSkill">> ELSE <<>>)
  \o (IF AnyIn(query_lower, multi_hop_indicators) /\ Registered("ImplicitKnowledgeSkill")
      THEN <<"ImplicitKnowledgeSkill">> ELSE <<>>)
  \o (IF Registered("ResponseGenerationSkill")
      THEN <<"ResponseGenerationSkill">> ELSE <<>>)

FallbackReasoning(query_lower) ==
  (IF Registered("MemoryRetrievalSkill")
   THEN <<"Added", _determine_retrieval_mode(query_lower), "memory retrieval">>
   ELSE <<>>)
  \o (IF AnyIn(query_lower, conflict_indicators) /\ Registered("ConflictDetectorSkill")
      THEN <<"Added conflict detection for comparison query">> ELSE <<>>)
  \o (IF AnyIn(query_lower, multi_hop_indicators) /\ Registered("ImplicitKnowledgeSkill")
      THEN <<"Added implicit knowledge skill for multi-hop reasoning">> ELSE <<>>)
  \o (IF Registered("ResponseGenerationSkill")
      THEN <<"Added response generation as final step">> ELSE <<>>)

\* Mutant: the default plan is returned with the confidence of the error fallback.
FallbackPlanLowDefault(u) ==
  LET query_lower == Lower(u.input_query)
      plan == FallbackStagePlan(query_lower)
  IN IF plan # <<>>
     THEN PlanGenerationResult(plan, Num(RuleBasedConfidence),
                               Reason("rules", 0, FallbackReasoning(query_lower)),
                               FALSE, TRUE)
     ELSE PlanGenerationResult(_get_default_fallback_plan, Num(ErrorConfidence),
                               Reason("rules", 0, <<"Used default fallback plan">>),
                               FALSE, TRUE)

_generate_fallback_plan(u) ==
  LET query_lower == Lower(u.input_query)
      plan == FallbackStagePlan(query_lower)
  IN PlanGenerationResult(
       IF plan # <<>> THEN plan ELSE _get_default_fallback_plan,
       Num(RuleBasedConfidence),
       IF plan # <<>> THEN Reason("rules", 0, FallbackReasoning(query_lower))
       ELSE Reason("rules", 0, <<"Used default fallback plan">>),
       FALSE, TRUE)


\* --------------------------------------------------------------- plan cache
RECURSIVE Join(_, _)
Join(parts, sep) ==
  IF parts = <<>> THEN <<>>
  ELSE IF Len(parts) = 1 THEN parts[1]
  ELSE parts[1] \o sep \o Join(Tail(parts), sep)

\* str(sorted(self._registered_skills.keys()))
SortedKeysStr ==
  LET names == SortedNames(DOMAIN registered_skills)
  IN <<"[">> \o Join([i \in 1..Len(names) |-> <<names[i]>>], <<",">>) \o <<"]">>

\* hashlib.md5(s.encode()).hexdigest(), taken to be injective
Md5(s) == s

_generate_query_hash(u) ==
  Md5(u.input_query \o <<"|">> \o u.active_profile \o <<"|">> \o SortedKeysStr)

_generate_skill_context ==
  LET names == SortedNames(DOMAIN registered_skills)
  IN Join([i \in 1..Len(names) |-> <<names[i], ":", registered_skills[names[i]]>>],
          <<"|">>)

\* Mutant: validity looks at the age of the entry alone.
ValidByTtlOnly(entry) == ~(now - entry.created_at > config.plan_cache_ttl)

_is_cache_entry_valid(entry) ==
  IF now - entry.created_at > config.plan_cache_ttl THEN FALSE
  ELSE IF entry.skill_context # _generate_skill_context THEN FALSE
  ELSE TRUE

\* Mutant: the sweep removes the entries past their lifetime and no others.
CleanupExpiredOnly(cache) ==
  LET expired_keys ==
        {key \in DOMAIN cache : now - cache[key].created_at > config.plan_cache_ttl}
  IN [key \in DOMAIN cache \ expired_keys |-> cache[key]]

\* The cache after _cleanup_cache has run over `cache`.
_cleanup_cache(cache) ==
  LET expired_keys == {key \in DOMAIN cache : ~_is_cache_entry_valid(cache[key])}
  IN [key \in DOMAIN cache \ expired_keys |-> cache[key]]

\* The cache after `self._plan_cache[query_hash] = entry`.
CachePut(cache, key, entry) ==
  [k \in DOMAIN cache \cup {key} |-> IF k = key THEN entry ELSE cache[k]]

\* The cache after `del self._plan_cache[query_hash]`.
CacheDel(cache, key) == [k \in DOMAIN cache \ {key} |-> cache[k]]

\* ---------------------------------------------------- model response parsing
\* The members of a JSON object, by the token that stands for them.
JsonBody(tok) ==
  LET B(has_plan, plan_is_list, plan, has_confidence, confidence, has_reasoning) ==
        [has_plan |-> has_plan, plan_is_list |-> plan_is_list, plan |-> plan,
         has_confidence |-> has_confidence, confidence |-> confidence,
         has_reasoning |-> has_reasoning]
      R == "ResponseGenerationSkill"
      M == "MemoryRetrievalSkill"
      C == "ConflictDetectorSkill"
  IN CASE tok = "plan:[R],conf:0.9,reasoning" -> B(TRUE, TRUE, <<R>>, TRUE, Num(90), TRUE)
       [] tok = "plan:[Unknown],conf:0.9" ->
            B(TRUE, TRUE, <<"UnknownSkill">>, TRUE, Num(90), FALSE)
       [] tok = "plan:[R,Unknown],conf:0.9" ->
            B(TRUE, TRUE, <<R, "UnknownSkill">>, TRUE, Num(90), FALSE)
       [] tok = "plan:[M,C,R],conf:0.9" -> B(TRUE, TRUE, <<M, C, R>>, TRUE, Num(90), FALSE)
       [] tok = "plan:[R,R,R,R],conf:0.9" ->
            B(TRUE, TRUE, <<R, R, R, R>>, TRUE, Num(90), FALSE)
       [] tok = "plan:[],conf:0.9" -> B(TRUE, TRUE, <<>>, TRUE, Num(90), FALSE)
       [] tok = "plan:[R]" -> B(TRUE, TRUE, <<R>>, FALSE, Num(0), FALSE)
       [] tok = "plan:[R],conf:1.5" -> B(TRUE, TRUE, <<R>>, TRUE, Num(150), FALSE)
       [] tok = "plan:[R],conf:0.4" -> B(TRUE, TRUE, <<R>>, TRUE, Num(40), FALSE)
       [] tok = "plan:[R],conf:'high'" -> B(TRUE, TRUE, <<R>>, TRUE, NotANumber, FALSE)
       [] tok = "plan:'R',conf:0.9" -> B(TRUE, FALSE, <<>>, TRUE, Num(90), FALSE)
       [] tok = "conf:0.9" -> B(FALSE, FALSE, <<>>, TRUE, Num(90), FALSE)
       [] OTHER -> B(FALSE, FALSE, <<>>, FALSE, Num(0), FALSE)

BodyTokens ==
  {"plan:[R],conf:0.9,reasoning", "plan:[Unknown],conf:0.9", "plan:[R,Unknown],conf:0.9",
   "plan:[M,C,R],conf:0.9", "plan:[R,R,R,R],conf:0.9", "plan:[],conf:0.9", "plan:[R]", "plan:[R],conf:1.5",
   "plan:[R],conf:0.4", "plan:[R],conf:'high'", "plan:'R',conf:0.9", "conf:0.9"}

\* response.find('{') and response.rfind('}'), 1-based, 0 when not found
Find(s, t) ==
  IF \E i \in 1..Len(s) : s[i] = t
  THEN CHOOSE i \in 1..Len(s) : s[i] = t /\ \A j \in 1..(i - 1) : s[j] # t
  ELSE 0

RFind(s, t) ==
  IF \E i \in 1..Len(s) : s[i] = t
  THEN CHOOSE i \in 1..Len(s) : s[i] = t /\ \A j \in (i + 1)..Len(s) : s[j] # t
  ELSE 0

\* json.loads on a token string: an object is "{" "}" or "{" members "}"
\* Members on which json.loads raises an exception that is not a
\* JSONDecodeError: arrays nested beyond the recursion limit (RecursionError)
\* and an integer of more digits than int() converts (ValueError).
RaisingTokens == {"plan:[[[[...]]]]", "plan:[R],conf:99999..."}

\* exc names the exception json.loads raises, "" when it returns.
JsonLoads(s) ==
  IF s = <<"{", "}">> THEN [ok |-> TRUE, data |-> JsonBody(""), exc |-> ""]
  ELSE IF Len(s) = 3 /\ s[1] = "{" /\ s[3] = "}" /\ s[2] \in BodyTokens
  THEN [ok |-> TRUE, data |-> JsonBody(s[2]), exc |-> ""]
  ELSE IF Len(s) = 3 /\ s[1] = "{" /\ s[3] = "}" /\ s[2] \in RaisingTokens
  THEN [ok |-> FALSE, data |-> JsonBody(""),
        exc |-> IF s[2] = "plan:[[[[...]]]]" THEN "RecursionError" ELSE "ValueError"]
  ELSE [ok |-> FALSE, data |-> JsonBody(""), exc |-> "JSONDecodeError"]

\* Mutant: the validator stops at the first element of the plan.
ValidateFirstElementOnly(plan_data) ==
  IF ~plan_data.has_plan \/ ~plan_data.plan_is_list THEN FALSE
  ELSE IF plan_data.plan # <<>> /\ ~Registered(plan_data.plan[1]) THEN FALSE
  ELSE IF Len(plan_data.plan) > config.max_plan_length THEN FALSE
  ELSE TRUE

_validate_generated_plan(plan_data) ==
  IF ~plan_data.has_plan \/ ~plan_data.plan_is_list THEN FALSE
  ELSE IF \E i \in 1..Len(plan_data.plan) : ~Registered(plan_data.plan[i]) THEN FALSE
  ELSE IF Len(plan_data.plan) > config.max_plan_length THEN FALSE
  ELSE TRUE

\* The exceptions the except clause of line 378 catches.
CaughtInParse == {"JSONDecodeError", "KeyError", "TypeError"}

\* [ok |-> FALSE] stands for None when exc is "", and for the exception exc
\* leaving the method otherwise.
_parse_llm_response(response) ==
  LET start_idx == Find(response, "{")
      end_idx == RFind(response, "}")
      loaded == JsonLoads(SubSeq(response, start_idx, end_idx))
  IN IF start_idx >= 1 /\ end_idx >= start_idx
     THEN IF loaded.ok /\ _validate_generated_plan(loaded.data) THEN loaded
          ELSE [ok |-> FALSE, data |-> JsonBody(""),
                exc |-> IF loaded.exc \in CaughtInParse THEN "" ELSE loaded.exc]
     ELSE [ok |-> FALSE, data |-> JsonBody(""), exc |-> ""]

\* Mutant: a validated plan is the result even when it is empty.
LLMResultKeepsEmptyPlan(u, response) ==
  LET plan_data == _parse_llm_response(response)
  IN IF plan_data.ok
     THEN PlanGenerationResult(
            plan_data.data.plan,
            IF plan_data.data.has_confidence THEN plan_data.data.confidence
            ELSE Num(DefaultLLMConfidence),
            IF plan_data.data.has_reasoning THEN Reason("llm", 0, <<"reasoning">>)
            ELSE Reason("llm", 0, <<"Generated by LLM planner">>),
            FALSE, FALSE)
     ELSE NoResult

\* The result of lines 273-284: the model's plan; NoResult when the rule-based
\* one is used (line 284, and line 288 when _parse_llm_response raised).
LLMResult(u, response) ==
  LET plan_data == _parse_llm_response(response)
  IN IF plan_data.ok /\ plan_data.data.plan # <<>>
     THEN PlanGenerationResult(
            plan_data.data.plan,
            IF plan_data.data.has_confidence THEN plan_data.data.confidence
            ELSE Num(DefaultLLMConfidence),
            IF plan_data.data.has_reasoning THEN Reason("llm", 0, <<"reasoning">>)
            ELSE Reason("llm", 0, <<"Generated by LLM planner">>),
            FALSE, FALSE)
     ELSE NoResult


\* ------------------------------------------------------------------ inputs
\* The (query, profile) pairs create_plan is called with.
Requests ==
  {<<<<"hello">>, <<"general">>>>, <<<<"Compare", "x", "and", "y">>, <<"researcher">>>>}

TtlValues == {1}

MaxPlanLengths == {3}

SkillLists ==
  {<<"MemoryRetrievalSkill", "ConflictDetectorSkill", "ResponseGenerationSkill">>}

RegisterInputs ==
  {<<"ConflictDetectorSkill", "1.0">>, <<"ResponseGenerationSkill", "1.0">>,
   <<"ResponseGenerationSkill", "2.0">>}

\* What generate_reasoning_plan may hand back.
CurriculumReply(skills, confidence_threshold) ==
  [skills |-> skills, confidence_threshold |-> confidence_threshold,
   curriculum_level |-> "foundation", complexity_score |-> 20,
   reasoning_strategy |-> "direct", estimated_effort |-> Len(skills)]

CurriculumReplies ==
  {CurriculumReply(<<"ResponseGenerationSkill">>, Num(70)),
   CurriculumReply(<<>>, Num(70)),
   CurriculumReply(<<"UnknownSkill", "ResponseGenerationSkill",
                     "ResponseGenerationSkill", "ResponseGenerationSkill">>, Num(150)),
   CurriculumReply(<<"ResponseGenerationSkill">>, Num(40)),
   CurriculumReply(<<"ResponseGenerationSkill">>, NotANumber)}

\* What the model's generate may hand back.
LLMResponses ==
  {<<"Sure", "{", "plan:[R],conf:0.9,reasoning", "}", "bye">>,
   <<"{", "plan:[R,Unknown],conf:0.9", "}">>,
   <<"{", "plan:[R,R,R,R],conf:0.9", "}">>,
   <<"{", "plan:[],conf:0.9", "}">>,
   <<"{", "plan:[R],conf:1.5", "}">>,
   <<"{", "plan:[R],conf:'high'", "}">>,
   <<"no", "json">>}

\* ------------------------------------------------------------------- Init
Init ==
  /\ config \in [enable_plan_caching : BOOLEAN, plan_cache_ttl : TtlValues,
                 max_plan_length : MaxPlanLengths]
  /\ curriculum \in BOOLEAN
  /\ llm_model \in BOOLEAN
  /\ graph_database \in BOOLEAN
  /\ registered_skills = <<>>
  /\ plan_cache = <<>>
  /\ now = 0
  /\ pc = [p \in Procs |-> "idle"]
  /\ uif = [p \in Procs |-> NoUIF]
  /\ result = [p \in Procs |-> NoResult]
  /\ local = [p \in Procs |-> NoLocal]
  /\ trail = [p \in Procs |-> <<>>]
  /\ outdated = {}
  /\ calls = 0
  /\ regs = 0
  /\ stats = NoStats

\* ------------------------------------------------------- registry operations
\* No call is running, and the bound on calls leaves room for one more.
Quiet == (\A p \in Procs : pc[p] \in {"idle", "Return", "Propagated"}) /\ calls < MaxCalls

\* The caller has taken the result of a call that returned; the request it
\* passed stays with it.
Rest ==
  /\ pc' = [p \in Procs |-> IF pc[p] = "Return" THEN "idle" ELSE pc[p]]
  /\ result' = [p \in Procs |-> IF pc[p] = "Return" THEN NoResult ELSE result[p]]
  /\ local' = [p \in Procs |-> IF pc[p] = "Return" THEN NoLocal ELSE local[p]]
  /\ trail' = [p \in Procs |-> IF pc[p] = "Return" THEN <<>> ELSE trail[p]]

\* Mutant: a name that is registered keeps the skill it has.
RegistryPutIfAbsent(registry, name, version) ==
  [n \in DOMAIN registry \cup {name} |->
     IF n \in DOMAIN registry THEN registry[n] ELSE version]

RegistryPut(registry, name, version) ==
  [n \in DOMAIN registry \cup {name} |-> IF n = name THEN version ELSE registry[n]]

RECURSIVE RegistryPutAll(_, _, _)
RegistryPutAll(registry, names, version) ==
  IF names = <<>> THEN registry
  ELSE RegistryPutAll(RegistryPut(registry, Head(names), version), Tail(names), version)

register_skill(name, version) ==
  /\ Quiet
  /\ regs < MaxRegs
  /\ registered_skills' = RegistryPut(registered_skills, name, version)
  /\ regs' = regs + 1
  /\ outdated' = IF registered_skills' # registered_skills
                 THEN DOMAIN plan_cache ELSE outdated
  /\ Rest
  /\ UNCHANGED <<stats, config, curriculum, llm_model, graph_database, plan_cache, now, uif,
                 calls>>

\* The skills are registered in bulk while the planner is set up, before its first call.
register_skills(names, version) ==
  /\ Quiet
  /\ calls = 0 /\ regs = 0
  /\ registered_skills' = RegistryPutAll(registered_skills, names, version)
  /\ UNCHANGED regs
  /\ outdated' = IF registered_skills' # registered_skills
                 THEN DOMAIN plan_cache ELSE outdated
  /\ Rest
  /\ UNCHANGED <<stats, config, curriculum, llm_model, graph_database, plan_cache, now, uif,
                 calls>>

\* Time passes between calls; within a call only lookup and store read the
\* clock, and they compare it with the creation time of an entry alone, so
\* the clock is advanced only while the cache holds an entry.
Tick ==
  /\ Quiet
  /\ DOMAIN plan_cache # {}
  /\ now < MaxTime
  /\ now' = now + 1
  /\ Rest
  /\ UNCHANGED <<stats, config, curriculum, llm_model, graph_database, registered_skills,
                 plan_cache, uif, outdated, calls, regs>>


\* ------------------------------------------------------------- create_plan
\* Mutant: the try block ends before the log line that formats the confidence.
TryBlockEndsBeforeLog ==
  {"CacheCheck", "CacheFetch", "CacheIncr", "CacheEvict", "Select", "Curriculum",
   "Model", "Validate", "RuleBased", "CacheStore", "Cleanup"}

\* The statements of create_plan that lie inside its try block (lines 141-174).
TryBlock ==
  {"CacheCheck", "CacheFetch", "CacheIncr", "CacheEvict", "Select", "Curriculum",
   "Model", "Validate", "RuleBased", "CacheStore", "Cleanup", "Finish"}

\* Mutant: a failure of the cache store is answered by running the rule-based planner.
HandlerFallsBackToRules(stage) ==
  IF stage = "CacheStore" THEN "RuleBased"
  ELSE IF stage \in TryBlock THEN "Except" ELSE "Propagated"

\* Where an exception raised at `stage` takes the call.
HandlerOf(stage) == IF stage \in TryBlock THEN "Except" ELSE "Propagated"

Raise(p, stage, exc) ==
  /\ pc' = [pc EXCEPT ![p] = HandlerOf(stage)]
  /\ trail' = [trail EXCEPT ![p] = Append(@, HandlerOf(stage))]
  /\ local' = [local EXCEPT ![p].exc = exc, ![p].raised_at = stage]

Goto(p, stage) ==
  /\ pc' = [pc EXCEPT ![p] = stage]
  /\ trail' = [trail EXCEPT ![p] = Append(@, stage)]

\* Mutant: the call looks the request up in the cache whatever the configuration says.
StartCallAlwaysLooksUp(p, q, prof, bag) ==
  /\ pc[p] \in {"idle", "Return"}
  /\ calls < MaxCalls
  /\ calls' = calls + 1
  /\ uif' = [uif EXCEPT ![p] = NewUIF(q, prof, bag)]
  /\ result' = [result EXCEPT ![p] = NoResult]
  /\ local' = [local EXCEPT ![p] = [NoLocal EXCEPT !.cache_at_start = plan_cache,
                                                    !.bag_at_start = bag]]
  /\ pc' = [pc EXCEPT ![p] = "CacheCheck"]
  /\ trail' = [trail EXCEPT ![p] = <<pc'[p]>>]
  /\ UNCHANGED outdated
  /\ UNCHANGED <<stats, config, curriculum, llm_model, graph_database, registered_skills,
                 plan_cache, now, regs>>

\* create_plan is called (lines 137-143).
StartCall(p, q, prof, bag) ==
  /\ pc[p] \in {"idle", "Return"}
  /\ calls < MaxCalls
  /\ calls' = calls + 1
  /\ uif' = [uif EXCEPT ![p] = NewUIF(q, prof, bag)]
  /\ result' = [result EXCEPT ![p] = NoResult]
  /\ local' = [local EXCEPT ![p] = [NoLocal EXCEPT !.cache_at_start = plan_cache,
                                                    !.bag_at_start = bag]]
  /\ pc' = [pc EXCEPT ![p] = IF config.enable_plan_caching THEN "CacheCheck" ELSE "Select"]
  /\ trail' = [trail EXCEPT ![p] = <<pc'[p]>>]
  /\ UNCHANGED outdated
  /\ UNCHANGED <<stats, config, curriculum, llm_model, graph_database, registered_skills,
                 plan_cache, now, regs>>

\* _check_plan_cache, lines 197-199
CacheLookup(p) ==
  /\ pc[p] = "CacheCheck"
  /\ LET query_hash == _generate_query_hash(uif[p])
     IN /\ local' = [local EXCEPT ![p].query_hash = query_hash]
        /\ Goto(p, IF query_hash \in DOMAIN plan_cache THEN "CacheFetch" ELSE "Select")
  /\ UNCHANGED outdated
  /\ UNCHANGED <<stats, config, curriculum, llm_model, graph_database, registered_skills,
                 plan_cache, now, uif, result, calls, regs>>

\* _check_plan_cache, lines 200-203
CacheFetch(p) ==
  /\ pc[p] = "CacheFetch"
  /\ IF local[p].query_hash \in DOMAIN plan_cache
     THEN /\ Goto(p, IF _is_cache_entry_valid(plan_cache[local[p].query_hash])
                     THEN "CacheIncr" ELSE "CacheEvict")
          /\ UNCHANGED local
     ELSE Raise(p, "CacheFetch", "KeyError")
  /\ UNCHANGED outdated
  /\ UNCHANGED <<stats, config, curriculum, llm_model, graph_database, registered_skills,
                 plan_cache, now, uif, result, calls, regs>>

\* Mutant: a hit is served without counting it.
CacheHitWithoutCount(p) ==
  /\ pc[p] = "CacheIncr"
  /\ local[p].query_hash \in DOMAIN plan_cache
  /\ LET entry == plan_cache[local[p].query_hash]
     IN result' = [result EXCEPT ![p] =
          PlanGenerationResult(entry.plan, entry.confidence,
                               Reason("cache", entry.usage_count, <<>>), TRUE, FALSE)]
  /\ Goto(p, "Return")
  /\ UNCHANGED <<stats, config, curriculum, llm_model, graph_database, registered_skills,
                 plan_cache, now, uif, local, outdated, calls, regs>>

\* Mutant: the lookup that hits also sweeps the cache.
CacheHitSweeps(p) ==
  /\ pc[p] = "CacheIncr"
  /\ local[p].query_hash \in DOMAIN plan_cache
  /\ LET key == local[p].query_hash
         entry == [plan_cache[key] EXCEPT !.usage_count = @ + 1]
     IN /\ plan_cache' = _cleanup_cache([plan_cache EXCEPT ![key] = entry])
        /\ result' = [result EXCEPT ![p] =
             PlanGenerationResult(entry.plan, entry.confidence,
                                  Reason("cache", entry.usage_count, <<>>), TRUE, FALSE)]
  /\ Goto(p, "Return")
  /\ outdated' = outdated \cap DOMAIN plan_cache'
  /\ UNCHANGED <<stats, config, curriculum, llm_model, graph_database, registered_skills,
                 now, uif, local, calls, regs>>

\* Mutant: a hit gives the entry a new creation time.
CacheHitRefreshes(p) ==
  /\ pc[p] = "CacheIncr"
  /\ local[p].query_hash \in DOMAIN plan_cache
  /\ LET key == local[p].query_hash
         entry == [plan_cache[key] EXCEPT !.usage_count = @ + 1, !.created_at = now]
     IN /\ plan_cache' = [plan_cache EXCEPT ![key] = entry]
        /\ result' = [result EXCEPT ![p] =
             PlanGenerationResult(entry.plan, entry.confidence,
                                  Reason("cache", entry.usage_count, <<>>), TRUE, FALSE)]
  /\ Goto(p, "Return")
  /\ UNCHANGED outdated
  /\ UNCHANGED <<stats, config, curriculum, llm_model, graph_database, registered_skills,
                 now, uif, local, calls, regs>>

\* _check_plan_cache, lines 204-206, and create_plan, lines 145-154
CacheHit(p) ==
  /\ pc[p] = "CacheIncr"
  /\ local[p].query_hash \in DOMAIN plan_cache
  /\ LET key == local[p].query_hash
         entry == [plan_cache[key] EXCEPT !.usage_count = @ + 1]
     IN /\ plan_cache' = [plan_cache EXCEPT ![key] = entry]
        /\ result' = [result EXCEPT ![p] =
             PlanGenerationResult(entry.plan, entry.confidence,
                                  Reason("cache", entry.usage_count, <<>>), TRUE, FALSE)]
  /\ Goto(p, "Return")
  /\ UNCHANGED outdated
  /\ UNCHANGED <<stats, config, curriculum, llm_model, graph_database, registered_skills,
                 now, uif, local, calls, regs>>

\* Mutant: the eviction removes every entry that is no longer valid.
CacheEvictSweeps(p) ==
  /\ pc[p] = "CacheEvict"
  /\ IF local[p].query_hash \in DOMAIN plan_cache
     THEN /\ plan_cache' = _cleanup_cache(plan_cache)
          /\ Goto(p, "Select")
          /\ UNCHANGED local
     ELSE /\ Raise(p, "CacheEvict", "KeyError")
          /\ UNCHANGED plan_cache
  /\ outdated' = outdated \cap DOMAIN plan_cache'
  /\ UNCHANGED <<stats, config, curriculum, llm_model, graph_database, registered_skills,
                 now, uif, result, calls, regs>>

\* _check_plan_cache, lines 209-212
CacheEvict(p) ==
  /\ pc[p] = "CacheEvict"
  /\ IF local[p].query_hash \in DOMAIN plan_cache
     THEN /\ plan_cache' = CacheDel(plan_cache, local[p].query_hash)
          /\ Goto(p, "Select")
          /\ UNCHANGED local
     ELSE /\ Raise(p, "CacheEvict", "KeyError")
          /\ UNCHANGED plan_cache
  /\ outdated' = outdated \cap DOMAIN plan_cache'
  /\ UNCHANGED <<stats, config, curriculum, llm_model, graph_database, registered_skills,
                 now, uif, result, calls, regs>>

\* Mutant: the model is preferred to the curriculum.
SelectModelFirst(p) ==
  /\ pc[p] = "Select"
  /\ Goto(p, IF llm_model THEN "Model" ELSE IF curriculum THEN "Curriculum" ELSE "RuleBased")
  /\ UNCHANGED <<stats, config, curriculum, llm_model, graph_database, registered_skills,
                 plan_cache, now, uif, result, local, outdated, calls, regs>>

\* create_plan, lines 157-162
SelectStrategy(p) ==
  /\ pc[p] = "Select"
  /\ Goto(p, IF curriculum THEN "Curriculum" ELSE IF llm_model THEN "Model" ELSE "RuleBased")
  /\ UNCHANGED outdated
  /\ UNCHANGED <<stats, config, curriculum, llm_model, graph_database, registered_skills,
                 plan_cache, now, uif, result, local, calls, regs>>

\* _generate_curriculum_plan, lines 221-242: the collaborator returns `reply`
CurriculumReturns(p, reply) ==
  /\ pc[p] = "Curriculum"
  /\ uif' = [uif EXCEPT ![p].curriculum_level = reply.curriculum_level,
                        ![p].complexity_score = reply.complexity_score,
                        ![p].reasoning_strategy = reply.reasoning_strategy,
                        ![p].estimated_effort = reply.estimated_effort]
  /\ result' = [result EXCEPT ![p] =
       PlanGenerationResult(reply.skills, reply.confidence_threshold,
                            Reason("curriculum", 0,
                                   <<reply.curriculum_level, reply.reasoning_strategy>>),
                            FALSE, FALSE)]
  /\ Goto(p, "CacheStore")
  /\ UNCHANGED outdated
  /\ UNCHANGED <<stats, config, curriculum, llm_model, graph_database, registered_skills,
                 plan_cache, now, local, calls, regs>>

\* Mutant: an exception of generate_reasoning_plan is not caught in
\* _generate_curriculum_plan.
CurriculumRaiseEscapes(p) ==
  /\ pc[p] = "Curriculum"
  /\ Raise(p, "Curriculum", "RuntimeError")
  /\ UNCHANGED <<stats, config, curriculum, llm_model, graph_database, registered_skills,
                 plan_cache, now, uif, result, outdated, calls, regs>>

\* _generate_curriculum_plan, lines 244-250: the collaborator raises
CurriculumRaises(p) ==
  /\ pc[p] = "Curriculum"
  /\ Goto(p, IF llm_model THEN "Model" ELSE "RuleBased")
  /\ UNCHANGED outdated
  /\ UNCHANGED <<stats, config, curriculum, llm_model, graph_database, registered_skills,
                 plan_cache, now, uif, result, local, calls, regs>>

\* _generate_llm_plan, lines 259-268: generate returns `response`
ModelReturns(p, response) ==
  /\ pc[p] = "Model"
  /\ local' = [local EXCEPT ![p].response = response]
  /\ Goto(p, "Validate")
  /\ UNCHANGED outdated
  /\ UNCHANGED <<stats, config, curriculum, llm_model, graph_database, registered_skills,
                 plan_cache, now, uif, result, calls, regs>>

\* Mutant: an exception of the model's generate is not caught in _generate_llm_plan.
ModelRaiseEscapes(p) ==
  /\ pc[p] = "Model"
  /\ Raise(p, "Model", "RuntimeError")
  /\ UNCHANGED <<stats, config, curriculum, llm_model, graph_database, registered_skills,
                 plan_cache, now, uif, result, outdated, calls, regs>>

\* _generate_llm_plan, lines 286-288: generate raises
ModelRaises(p) ==
  /\ pc[p] = "Model"
  /\ Goto(p, "RuleBased")
  /\ UNCHANGED outdated
  /\ UNCHANGED <<stats, config, curriculum, llm_model, graph_database, registered_skills,
                 plan_cache, now, uif, result, local, calls, regs>>

\* _generate_llm_plan, lines 270-284
Validate(p) ==
  /\ pc[p] = "Validate"
  /\ LET r == LLMResult(uif[p], local[p].response)
     IN IF r.valid
        THEN /\ result' = [result EXCEPT ![p] = r]
             /\ Goto(p, "CacheStore")
        ELSE /\ Goto(p, "RuleBased")
             /\ UNCHANGED result
  /\ UNCHANGED outdated
  /\ UNCHANGED <<stats, config, curriculum, llm_model, graph_database, registered_skills,
                 plan_cache, now, uif, local, calls, regs>>

\* _generate_fallback_plan, lines 417-477
RuleBased(p) ==
  /\ pc[p] = "RuleBased"
  /\ result' = [result EXCEPT ![p] = _generate_fallback_plan(uif[p])]
  /\ uif' = [uif EXCEPT ![p].intermediate_data =
                          FallbackBag(@, Lower(uif[p].input_query))]
  /\ Goto(p, "CacheStore")
  /\ UNCHANGED outdated
  /\ UNCHANGED <<stats, config, curriculum, llm_model, graph_database, registered_skills,
                 plan_cache, now, local, calls, regs>>

\* Mutant: the confidence is not looked at before caching.
ShouldCacheAnyConfidence(r) == config.enable_plan_caching /\ r.plan # <<>>

\* create_plan, line 165: the test that guards _cache_plan
ShouldCache(r) ==
  config.enable_plan_caching /\ r.plan # <<>> /\ r.confidence.val > CacheConfidenceThreshold

\* line 165 compares the confidence only if the two tests before it pass
CacheTestRaises(r) ==
  config.enable_plan_caching /\ r.plan # <<>> /\ r.confidence.kind # "num"

\* create_plan, lines 165-166, and _cache_plan, lines 505-517
CacheStore(p) ==
  /\ pc[p] = "CacheStore"
  /\ IF CacheTestRaises(result[p])
     THEN /\ Raise(p, "CacheStore", "TypeError")
          /\ UNCHANGED <<plan_cache, outdated>>
     ELSE IF ShouldCache(result[p])
     THEN LET query_hash == _generate_query_hash(uif[p])
          IN /\ plan_cache' =
                  CachePut(plan_cache, query_hash,
                           PlanCacheEntry(result[p].plan, result[p].confidence, now, 0,
                                          query_hash, _generate_skill_context))
             /\ local' = [local EXCEPT ![p].query_hash = query_hash]
             /\ outdated' = outdated \ {query_hash}
             /\ Goto(p, "Cleanup")
     ELSE /\ Goto(p, "Finish")
          /\ UNCHANGED <<plan_cache, local, outdated>>
  /\ UNCHANGED <<stats, config, curriculum, llm_model, graph_database, registered_skills,
                 now, uif, result, calls, regs>>

\* _cache_plan, line 521, and _cleanup_cache, lines 570-580
CleanupCache(p) ==
  /\ pc[p] = "Cleanup"
  /\ plan_cache' = _cleanup_cache(plan_cache)
  /\ outdated' = outdated \cap DOMAIN plan_cache'
  /\ Goto(p, "Finish")
  /\ UNCHANGED <<stats, config, curriculum, llm_model, graph_database, registered_skills,
                 now, uif, result, local, calls, regs>>

\* create_plan, lines 168-173: the log line formats the confidence with :.2f
Finish(p) ==
  /\ pc[p] = "Finish"
  /\ IF result[p].confidence.kind # "num"
     THEN Raise(p, "Finish", "TypeError")
     ELSE /\ Goto(p, "Return")
          /\ UNCHANGED local
  /\ UNCHANGED outdated
  /\ UNCHANGED <<stats, config, curriculum, llm_model, graph_database, registered_skills,
                 plan_cache, now, uif, result, calls, regs>>

\* Mutant: the handler answers with the rule-based planner's result.
ExceptRunsRuleBased(p) ==
  /\ pc[p] = "Except"
  /\ result' = [result EXCEPT ![p] = _generate_fallback_plan(uif[p])]
  /\ Goto(p, "Return")
  /\ UNCHANGED <<stats, config, curriculum, llm_model, graph_database, registered_skills,
                 plan_cache, now, uif, local, outdated, calls, regs>>

\* create_plan, lines 175-188
Except(p) ==
  /\ pc[p] = "Except"
  /\ result' = [result EXCEPT ![p] =
       PlanGenerationResult(_get_default_fallback_plan, Num(ErrorConfidence),
                            Reason("error", 0, <<local[p].exc>>), FALSE, TRUE)]
  /\ Goto(p, "Return")
  /\ UNCHANGED outdated
  /\ UNCHANGED <<stats, config, curriculum, llm_model, graph_database, registered_skills,
                 plan_cache, now, uif, local, calls, regs>>

\* One statement of the call p is in.
Step(p) ==
  \/ CacheLookup(p)
  \/ CacheFetch(p)
  \/ CacheHit(p)
  \/ CacheEvict(p)
  \/ SelectStrategy(p)
  \/ \E reply \in CurriculumReplies : CurriculumReturns(p, reply)
  \/ CurriculumRaises(p)
  \/ \E response \in LLMResponses : ModelReturns(p, response)
  \/ ModelRaises(p)
  \/ Validate(p)
  \/ RuleBased(p)
  \/ CacheStore(p)
  \/ CleanupCache(p)
  \/ Finish(p)
  \/ Except(p)

Bags(p) == {EmptyBag, uif[p].intermediate_data}

Next ==
  \/ \E skill \in RegisterInputs : register_skill(skill[1], skill[2])
  \/ \E names \in SkillLists : register_skills(names, "1.0")
  \/ Tick
  \/ \E p \in SeqProcs, req \in Requests :
       \E bag \in Bags(p) : StartCall(p, req[1], req[2], bag)
  \/ \E p \in SeqProcs : Step(p)

Spec == Init /\ [][Next]_vars

\* create_plan is synchronous: once called, the interpreter runs it statement
\* by statement until it returns or raises, and every collaborator call comes
\* back (by returning or raising).
FairSpec == Spec /\ \A p \in SeqProcs : WF_vars(Step(p))

\* ------------------------------------------------ the rule-based planner alone
\* Queries that exercise every branch of the keyword classifiers.
RuleQueries ==
  {<<"hello">>, <<"Compare", "x", "and", "y">>, <<"how">>,
   <<"how", "does", "x", "work">>, <<"tell", "me", "about", "x">>,
   <<"why", "about", "x">>, <<"Explain", "everything">>, <<"why", "direct">>,
   <<"x", "versus", "y", "between">>, <<"why", "all", "chain">>}

RulePlanSkills ==
  {"MemoryRetrievalSkill", "ConflictDetectorSkill", "ImplicitKnowledgeSkill",
   "ResponseGenerationSkill"}

\* Every registry over the four skills the rule-based planner looks for.
RuleRegistries == UNION {[S -> {"1.0"}] : S \in SUBSET RulePlanSkills}

\* A planner without curriculum, model or caching, after its skills were registered.
\* The bags a request comes with: an empty one, the one the caller used for
\* the call before, and one that holds a key of the caller's own.
RuleBags(p) == Bags(p) \cup {[EmptyBag EXCEPT !.other_keys = {"session_id"}]}

RuleInit ==
  /\ config \in [enable_plan_caching : {FALSE}, plan_cache_ttl : TtlValues,
                 max_plan_length : MaxPlanLengths]
  /\ curriculum = FALSE
  /\ llm_model = FALSE
  /\ graph_database \in BOOLEAN
  /\ registered_skills \in RuleRegistries
  /\ plan_cache = <<>>
  /\ now = 0
  /\ pc = [p \in Procs |-> "idle"]
  /\ uif = [p \in Procs |-> NoUIF]
  /\ result = [p \in Procs |-> NoResult]
  /\ local = [p \in Procs |-> NoLocal]
  /\ trail = [p \in Procs |-> <<>>]
  /\ outdated = {}
  /\ calls = 0
  /\ regs = 0
  /\ stats = NoStats

RuleNext ==
  \/ \E p \in SeqProcs, q \in RuleQueries :
       \E bag \in RuleBags(p) : StartCall(p, q, <<"general">>, bag)
  \/ \E p \in SeqProcs : SelectStrategy(p)
  \/ \E p \in SeqProcs : RuleBased(p)
  \/ \E p \in SeqProcs : CacheStore(p)
  \/ \E p \in SeqProcs : Finish(p)

RuleSpec == RuleInit /\ [][RuleNext]_vars


\* --------------------------------------------- the caching option, switched
\* create_plan reads self._config.enable_plan_caching anew in every call
\* (lines 143 and 165); the configuration object comes from get_sof_config and
\* is shared with the code that sets its options.  The option is switched
\* between calls, so a planner with caching off can hold entries stored earlier.
set_enable_plan_caching(flag) ==
  /\ Quiet
  /\ flag # config.enable_plan_caching
  /\ config' = [config EXCEPT !.enable_plan_caching = flag]
  /\ Rest
  /\ UNCHANGED <<stats, curriculum, llm_model, graph_database, registered_skills, plan_cache,
                 now, uif, outdated, calls, regs>>

SwitchQueries == {<<"hello">>, <<"how">>}

SwitchRegistries ==
  {[n \in {"ResponseGenerationSkill"} |-> "1.0"],
   [n \in {"MemoryRetrievalSkill", "ResponseGenerationSkill"} |-> "1.0"]}

SwitchInit ==
  /\ config \in [enable_plan_caching : BOOLEAN, plan_cache_ttl : TtlValues,
                 max_plan_length : MaxPlanLengths]
  /\ curriculum = FALSE
  /\ llm_model = FALSE
  /\ graph_database \in BOOLEAN
  /\ registered_skills \in SwitchRegistries
  /\ plan_cache = <<>>
  /\ now = 0
  /\ pc = [p \in Procs |-> "idle"]
  /\ uif = [p \in Procs |-> NoUIF]
  /\ result = [p \in Procs |-> NoResult]
  /\ local = [p \in Procs |-> NoLocal]
  /\ trail = [p \in Procs |-> <<>>]
  /\ outdated = {}
  /\ calls = 0
  /\ regs = 0
  /\ stats = NoStats

SwitchNext ==
  \/ \E flag \in BOOLEAN : set_enable_plan_caching(flag)
  \/ Tick
  \/ \E p \in SeqProcs, q \in SwitchQueries :
       \E bag \in Bags(p) : StartCall(p, q, <<"general">>, bag)
  \/ \E p \in SeqProcs : CacheLookup(p)
  \/ \E p \in SeqProcs : CacheFetch(p)
  \/ \E p \in SeqProcs : CacheHit(p)
  \/ \E p \in SeqProcs : CacheEvict(p)
  \/ \E p \in SeqProcs : SelectStrategy(p)
  \/ \E p \in SeqProcs : RuleBased(p)
  \/ \E p \in SeqProcs : CacheStore(p)
  \/ \E p \in SeqProcs : CleanupCache(p)
  \/ \E p \in SeqProcs : Finish(p)

SwitchSpec == SwitchInit /\ [][SwitchNext]_vars

\* ------------------------------------------------- cache maintenance operations
\* sum(entry.usage_count for entry in cache.values())
RECURSIVE SumUsage(_, _)
SumUsage(cache, keys) ==
  IF keys = {} THEN 0
  ELSE LET key == CHOOSE k \in keys : TRUE
       IN cache[key].usage_count + SumUsage(cache, keys \ {key})

\* a / b of two ints, a float: kept as the fraction it stands for
TrueDiv(a, b) == [kind |-> "float", num |-> a, den |-> b]

\* Mutant: the entries that were never reused are not counted.
StatsOfReusedEntries ==
  LET reused == {k \in DOMAIN plan_cache : plan_cache[k].usage_count > 0}
      total_entries == Cardinality(reused)
      total_usage == SumUsage(plan_cache, reused)
  IN [total_entries |-> total_entries,
      total_usage |-> total_usage,
      average_usage |-> IF total_entries > 0 THEN TrueDiv(total_usage, total_entries)
                        ELSE Num(0),
      cache_enabled |-> config.enable_plan_caching,
      taken |-> TRUE]

\* The dictionary get_cache_stats builds, lines 589-597.
CacheStats ==
  LET total_entries == Cardinality(DOMAIN plan_cache)
      total_usage == SumUsage(plan_cache, DOMAIN plan_cache)
  IN [total_entries |-> total_entries,
      total_usage |-> total_usage,
      average_usage |-> IF total_entries > 0 THEN TrueDiv(total_usage, total_entries)
                        ELSE Num(0),
      cache_enabled |-> config.enable_plan_caching,
      taken |-> TRUE]

\* No create_plan call is running.
Between == \A p \in Procs : pc[p] \in {"idle", "Return", "Propagated"}

get_cache_stats ==
  /\ Between
  /\ stats' = CacheStats
  /\ Rest
  /\ UNCHANGED <<config, curriculum, llm_model, graph_database, registered_skills,
                 plan_cache, now, uif, outdated, calls, regs>>

\* Mutant: only the entries that are no longer valid are removed.
ClearInvalidEntries ==
  /\ Between
  /\ plan_cache' = _cleanup_cache(plan_cache)
  /\ outdated' = {}
  /\ Rest
  /\ UNCHANGED <<stats, config, curriculum, llm_model, graph_database, registered_skills,
                 now, uif, calls, regs>>

\* self._plan_cache.clear(), line 601
clear_cache ==
  /\ Between
  /\ plan_cache' = <<>>
  /\ outdated' = {}
  /\ Rest
  /\ UNCHANGED <<stats, config, curriculum, llm_model, graph_database, registered_skills,
                 now, uif, calls, regs>>

\* The calls of a run of the cache operations.
MaxCacheCalls == 3

CacheQueries == {<<"hello">>, <<"how">>}

CacheRegisterInputs ==
  {<<"ResponseGenerationSkill", "1.0">>, <<"ResponseGenerationSkill", "2.0">>}

\* A planner with the rule-based strategy alone, one skill registered and
\* room for MaxCacheCalls calls.
CacheInit ==
  /\ config \in [enable_plan_caching : BOOLEAN, plan_cache_ttl : TtlValues,
                 max_plan_length : MaxPlanLengths]
  /\ curriculum = FALSE
  /\ llm_model = FALSE
  /\ graph_database = FALSE
  /\ registered_skills = [n \in {"ResponseGenerationSkill"} |-> "1.0"]
  /\ plan_cache = <<>>
  /\ now = 0
  /\ pc = [p \in Procs |-> "idle"]
  /\ uif = [p \in Procs |-> NoUIF]
  /\ result = [p \in Procs |-> NoResult]
  /\ local = [p \in Procs |-> NoLocal]
  /\ trail = [p \in Procs |-> <<>>]
  /\ outdated = {}
  /\ calls = MaxCalls - MaxCacheCalls
  /\ regs = 0
  /\ stats = NoStats

CacheNext ==
  \/ \E skill \in CacheRegisterInputs : register_skill(skill[1], skill[2])
  \/ Tick
  \/ clear_cache
  \/ get_cache_stats
  \/ \E p \in SeqProcs, q \in CacheQueries : StartCall(p, q, <<"general">>, EmptyBag)
  \/ \E p \in SeqProcs : CacheLookup(p)
  \/ \E p \in SeqProcs : CacheFetch(p)
  \/ \E p \in SeqProcs : CacheHit(p)
  \/ \E p \in SeqProcs : CacheEvict(p)
  \/ \E p \in SeqProcs : SelectStrategy(p)
  \/ \E p \in SeqProcs : RuleBased(p)
  \/ \E p \in SeqProcs : CacheStore(p)
  \/ \E p \in SeqProcs : CleanupCache(p)
  \/ \E p \in SeqProcs : Finish(p)

CacheSpec == CacheInit /\ [][CacheNext]_vars

\* ------------------------------------------ three calls with every strategy
\* A planner with caching on and any of curriculum and model, one skill
\* registered and room for MaxCacheCalls calls, so that a lookup or a store
\* finds entries under other keys.
ThreeCallQueries == CacheQueries \cup {<<"why">>}

ThreeCallInit ==
  /\ config \in [enable_plan_caching : {TRUE}, plan_cache_ttl : TtlValues,
                 max_plan_length : MaxPlanLengths]
  /\ curriculum \in BOOLEAN
  /\ llm_model \in BOOLEAN
  /\ graph_database = FALSE
  /\ registered_skills = [n \in {"ResponseGenerationSkill"} |-> "1.0"]
  /\ plan_cache = <<>>
  /\ now = 0
  /\ pc = [p \in Procs |-> "idle"]
  /\ uif = [p \in Procs |-> NoUIF]
  /\ result = [p \in Procs |-> NoResult]
  /\ local = [p \in Procs |-> NoLocal]
  /\ trail = [p \in Procs |-> <<>>]
  /\ outdated = {}
  /\ calls = MaxCalls - MaxCacheCalls
  /\ regs = 0
  /\ stats = NoStats

ThreeCallNext ==
  \/ \E skill \in CacheRegisterInputs : register_skill(skill[1], skill[2])
  \/ Tick
  \/ \E p \in SeqProcs, q \in ThreeCallQueries : StartCall(p, q, <<"general">>, EmptyBag)
  \/ \E p \in SeqProcs : Step(p)

ThreeCallSpec == ThreeCallInit /\ [][ThreeCallNext]_vars

\* ------------------------------------------------- model response parsing
\* A planner whose only strategy above the rules is the model; every text the
\* model can answer goes through _parse_llm_response.
ParseBodies == BodyTokens \cup RaisingTokens

ParseResponses ==
  {<<"{", b, "}">> : b \in ParseBodies}
    \cup {<<"Sure", "{", b, "}", "bye">> : b \in ParseBodies}
    \cup {<<>>, <<"no", "json">>, <<"{">>, <<"}">>, <<"}", "{">>, <<"{", "}">>,
          <<"{", "plan:[R]", "}", "{", "plan:[R]", "}">>,
          <<"{", "plan:[R]">>, <<"{", "not", "json", "}">>}

ParseRegistries ==
  UNION {[S -> {"1.0"}] : S \in SUBSET {"ResponseGenerationSkill", "MemoryRetrievalSkill",
                                        "ConflictDetectorSkill"}}

ParseMaxPlanLengths == {2, 3, 4}

ParseInit ==
  /\ config \in [enable_plan_caching : {FALSE}, plan_cache_ttl : TtlValues,
                 max_plan_length : ParseMaxPlanLengths]
  /\ curriculum = FALSE
  /\ llm_model = TRUE
  /\ graph_database = FALSE
  /\ registered_skills \in ParseRegistries
  /\ plan_cache = <<>>
  /\ now = 0
  /\ pc = [p \in Procs |-> "idle"]
  /\ uif = [p \in Procs |-> NoUIF]
  /\ result = [p \in Procs |-> NoResult]
  /\ local = [p \in Procs |-> NoLocal]
  /\ trail = [p \in Procs |-> <<>>]
  /\ outdated = {}
  /\ calls = MaxCalls - 1
  /\ regs = 0
  /\ stats = NoStats

ParseNext ==
  \/ \E p \in SeqProcs : StartCall(p, <<"hello">>, <<"general">>, EmptyBag)
  \/ \E p \in SeqProcs : SelectStrategy(p)
  \/ \E p \in SeqProcs, response \in ParseResponses : ModelReturns(p, response)
  \/ \E p \in SeqProcs : Validate(p)
  \/ \E p \in SeqProcs : RuleBased(p)
  \/ \E p \in SeqProcs : CacheStore(p)
  \/ \E p \in SeqProcs : Finish(p)
  \/ \E p \in SeqProcs : Except(p)

ParseSpec == ParseInit /\ [][ParseNext]_vars

\* ----------------------------------------------------------------- cache keys
\* Requests whose query or profile contains the character the key is joined
\* with, next to requests that contain none. A text is the sequence of its
\* tokens, "|" being a token of its own, so that query a|compare with profile
\* c and query a with profile compare|c are different requests.
KeyRequests ==
  {<<<<"a", "|", "compare">>, <<"c">>>>,
   <<<<"a">>, <<"compare", "|", "c">>>>,
   <<<<"hello">>, <<"general">>>>,
   <<<<"hello">>, <<"researcher">>>>,
   <<<<"compare">>, <<"general">>>>}

KeyBags(p) == Bags(p) \cup {[EmptyBag EXCEPT !.other_keys = {"session_id"}]}

\* A planner with caching on and neither curriculum nor model, after its
\* skills were registered.
KeyInit ==
  /\ config \in [enable_plan_caching : {TRUE}, plan_cache_ttl : TtlValues,
                 max_plan_length : MaxPlanLengths]
  /\ curriculum = FALSE
  /\ llm_model = FALSE
  /\ graph_database = FALSE
  /\ registered_skills
       = [n \in {"MemoryRetrievalSkill", "ConflictDetectorSkill",
                 "ResponseGenerationSkill"} |-> "1.0"]
  /\ plan_cache = <<>>
  /\ now = 0
  /\ pc = [p \in Procs |-> "idle"]
  /\ uif = [p \in Procs |-> NoUIF]
  /\ result = [p \in Procs |-> NoResult]
  /\ local = [p \in Procs |-> NoLocal]
  /\ trail = [p \in Procs |-> <<>>]
  /\ outdated = {}
  /\ calls = 0
  /\ regs = 0
  /\ stats = NoStats

KeyNext ==
  \/ Tick
  \/ \E p \in SeqProcs, req \in KeyRequests :
       \E bag \in KeyBags(p) : StartCall(p, req[1], req[2], bag)
  \/ \E p \in SeqProcs : CacheLookup(p)
  \/ \E p \in SeqProcs : CacheFetch(p)
  \/ \E p \in SeqProcs : CacheHit(p)
  \/ \E p \in SeqProcs : CacheEvict(p)
  \/ \E p \in SeqProcs : SelectStrategy(p)
  \/ \E p \in SeqProcs : RuleBased(p)
  \/ \E p \in SeqProcs : CacheStore(p)
  \/ \E p \in SeqProcs : CleanupCache(p)
  \/ \E p \in SeqProcs : Finish(p)

KeySpec == KeyInit /\ [][KeyNext]_vars

\* --------------------------------------------------------- interleaved calls
\* Two threads call create_plan on one planner. No lock is taken anywhere in
\* the class, so the calls interleave between statements; the statements that
\* read and then write shared state are split where another thread can run.

\* _check_plan_cache, line 204: `entry.usage_count += 1` reads the counter.
\* The interpreters the project supports (Python 3.8 and later) include those
\* that switch threads between the read and the write.
IncrementLoad(p) ==
  /\ pc[p] = "CacheIncr"
  /\ local[p].query_hash \in DOMAIN plan_cache
  /\ local' = [local EXCEPT ![p].usage_count = plan_cache[local[p].query_hash].usage_count]
  /\ Goto(p, "CacheIncrStore")
  /\ UNCHANGED <<stats, config, curriculum, llm_model, graph_database, registered_skills,
                 plan_cache, now, uif, result, outdated, calls, regs>>

\* _check_plan_cache, lines 204-206: the write of the counter, and create_plan,
\* lines 145-154
IncrementStore(p) ==
  /\ pc[p] = "CacheIncrStore"
  /\ local[p].query_hash \in DOMAIN plan_cache
  /\ LET key == local[p].query_hash
         entry == [plan_cache[key] EXCEPT !.usage_count = local[p].usage_count + 1]
     IN /\ plan_cache' = [plan_cache EXCEPT ![key] = entry]
        /\ result' = [result EXCEPT ![p] =
             PlanGenerationResult(entry.plan, entry.confidence,
                                  Reason("cache", entry.usage_count, <<>>), TRUE, FALSE)]
  /\ Goto(p, "Return")
  /\ UNCHANGED <<stats, config, curriculum, llm_model, graph_database, registered_skills,
                 now, uif, local, outdated, calls, regs>>

\* _cleanup_cache, line 572: the iterator over self._plan_cache.items() notes
\* the size of the dictionary.
SweepStart(p) ==
  /\ pc[p] = "Cleanup"
  /\ local' = [local EXCEPT ![p].dict_size = Cardinality(DOMAIN plan_cache)]
  /\ Goto(p, "CleanupScan")
  /\ UNCHANGED <<stats, config, curriculum, llm_model, graph_database, registered_skills,
                 plan_cache, now, uif, result, outdated, calls, regs>>

\* _cleanup_cache, lines 572-574: the loop; the iterator raises RuntimeError
\* (dictionary changed size during iteration) when the size is no longer the
\* one it noted.
SweepScan(p) ==
  /\ pc[p] = "CleanupScan"
  /\ IF Cardinality(DOMAIN plan_cache) # local[p].dict_size
     THEN Raise(p, "Cleanup", "RuntimeError")
     ELSE /\ local' = [local EXCEPT ![p].expired_keys =
                         {key \in DOMAIN plan_cache :
                            ~_is_cache_entry_valid(plan_cache[key])}]
          /\ Goto(p, "CleanupDelete")
  /\ UNCHANGED <<stats, config, curriculum, llm_model, graph_database, registered_skills,
                 plan_cache, now, uif, result, outdated, calls, regs>>

\* _cleanup_cache, lines 576-577: `del self._plan_cache[key]` for the collected
\* keys; KeyError at the first key that is no longer there, after the keys
\* before it were deleted.
SweepDelete(p) ==
  /\ pc[p] = "CleanupDelete"
  /\ IF local[p].expired_keys \subseteq DOMAIN plan_cache
     THEN /\ plan_cache' = [key \in DOMAIN plan_cache \ local[p].expired_keys
                              |-> plan_cache[key]]
          /\ Goto(p, "Finish")
          /\ UNCHANGED local
     ELSE /\ \E deleted \in SUBSET (local[p].expired_keys \cap DOMAIN plan_cache) :
               plan_cache' = [key \in DOMAIN plan_cache \ deleted |-> plan_cache[key]]
          /\ Raise(p, "Cleanup", "KeyError")
  /\ outdated' = outdated \cap DOMAIN plan_cache'
  /\ UNCHANGED <<stats, config, curriculum, llm_model, graph_database, registered_skills,
                 now, uif, result, calls, regs>>

ConcurrentQueries == {<<"hello">>, <<"how">>}

\* The entry an earlier create_plan("hello") at time 0 left in the cache.
EarlierEntry ==
  LET u == NewUIF(<<"hello">>, <<"general">>, EmptyBag)
      r == _generate_fallback_plan(u)
  IN PlanCacheEntry(r.plan, r.confidence, 0, 0, _generate_query_hash(u),
                    _generate_skill_context)

\* A planner with caching on and neither curriculum nor model, either new or
\* some time after one call whose result it still holds in the cache.
ConcurrentInit ==
  /\ config \in [enable_plan_caching : {TRUE}, plan_cache_ttl : TtlValues,
                 max_plan_length : MaxPlanLengths]
  /\ curriculum = FALSE
  /\ llm_model = FALSE
  /\ graph_database = FALSE
  /\ registered_skills = [n \in {"ResponseGenerationSkill"} |-> "1.0"]
  /\ now \in 0..MaxTime
  /\ \/ plan_cache = <<>> /\ now = 0
     \/ plan_cache = CachePut(<<>>, EarlierEntry.query_hash, EarlierEntry)
  /\ pc = [p \in Procs |-> "idle"]
  /\ uif = [p \in Procs |-> NoUIF]
  /\ result = [p \in Procs |-> NoResult]
  /\ local = [p \in Procs |-> NoLocal]
  /\ trail = [p \in Procs |-> <<>>]
  /\ outdated = {}
  /\ calls = 0
  /\ regs = 0
  /\ stats = NoStats

ConcurrentNext ==
  \/ \E p \in Procs, q \in ConcurrentQueries : StartCall(p, q, <<"general">>, EmptyBag)
  \/ \E p \in Procs : CacheLookup(p)
  \/ \E p \in Procs : CacheFetch(p)
  \/ \E p \in Procs : IncrementLoad(p)
  \/ \E p \in Procs : IncrementStore(p)
  \/ \E p \in Procs : CacheEvict(p)
  \/ \E p \in Procs : SelectStrategy(p)
  \/ \E p \in Procs : RuleBased(p)
  \/ \E p \in Procs : CacheStore(p)
  \/ \E p \in Procs : SweepStart(p)
  \/ \E p \in Procs : SweepScan(p)
  \/ \E p \in Procs : SweepDelete(p)
  \/ \E p \in Procs : Finish(p)
  \/ \E p \in Procs : Except(p)

ConcurrentSpec == ConcurrentInit /\ [][ConcurrentNext]_vars

\* ------------------------------------------------- results in callers' hands
\* The result a call returned and the cache entry are two objects with one
\* plan list: _cache_plan stores `plan=result.plan` (line 509) and a hit
\* returns `plan=cached_entry.plan` (line 148), neither copies the list.
SharesPlanWithCache(p) ==
  /\ local[p].query_hash \in DOMAIN plan_cache
  /\ result[p].cache_hit \/ \E i \in 1..Len(trail[p]) : trail[p][i] = "Cleanup"

\* What a caller does to the plan list of the result it holds.
CallerEdit(plan, edit) ==
  IF edit = "clear" THEN <<>> ELSE Append(plan, "UnknownSkill")

\* The caller of call p modifies result.plan in place; PlanGenerationResult is
\* a plain dataclass and its plan a plain list.
CallerModifiesPlan(p, edit) ==
  /\ pc[p] = "Return"
  /\ CallerEdit(result[p].plan, edit) # result[p].plan
  /\ \A i \in 1..Len(result[p].plan) : result[p].plan[i] # "UnknownSkill"
  /\ result' = [result EXCEPT ![p].plan = CallerEdit(@, edit)]
  /\ plan_cache' =
       IF SharesPlanWithCache(p)
       THEN [plan_cache EXCEPT ![local[p].query_hash].plan = CallerEdit(@, edit)]
       ELSE plan_cache
  /\ UNCHANGED <<stats, config, curriculum, llm_model, graph_database, registered_skills,
                 now, pc, uif, local, trail, outdated, calls, regs>>

\* A planner with caching on and neither curriculum nor model, after its
\* skills were registered, and a caller that edits the plans it is handed.
CallerInit ==
  /\ config \in [enable_plan_caching : {TRUE}, plan_cache_ttl : TtlValues,
                 max_plan_length : MaxPlanLengths]
  /\ curriculum = FALSE
  /\ llm_model = FALSE
  /\ graph_database = FALSE
  /\ registered_skills
       = [n \in {"MemoryRetrievalSkill", "ResponseGenerationSkill"} |-> "1.0"]
  /\ plan_cache = <<>>
  /\ now = 0
  /\ pc = [p \in Procs |-> "idle"]
  /\ uif = [p \in Procs |-> NoUIF]
  /\ result = [p \in Procs |-> NoResult]
  /\ local = [p \in Procs |-> NoLocal]
  /\ trail = [p \in Procs |-> <<>>]
  /\ outdated = {}
  /\ calls = MaxCalls - MaxCacheCalls
  /\ regs = 0
  /\ stats = NoStats

CallerNext ==
  \/ Tick
  \/ \E p \in SeqProcs, edit \in {"clear", "append"} : CallerModifiesPlan(p, edit)
  \/ \E p \in SeqProcs, q \in CacheQueries : StartCall(p, q, <<"general">>, EmptyBag)
  \/ \E p \in SeqProcs : CacheLookup(p)
  \/ \E p \in SeqProcs : CacheFetch(p)
  \/ \E p \in SeqProcs : CacheHit(p)
  \/ \E p \in SeqProcs : CacheEvict(p)
  \/ \E p \in SeqProcs : SelectStrategy(p)
  \/ \E p \in SeqProcs : RuleBased(p)
  \/ \E p \in SeqProcs : CacheStore(p)
  \/ \E p \in SeqProcs : CleanupCache(p)
  \/ \E p \in SeqProcs : Finish(p)

CallerSpec == CallerInit /\ [][CallerNext]_vars

\* ================================================================== claims
Returned(p) == pc[p] = "Return"

Entered(p, stage) == \E i \in 1..Len(trail[p]) : trail[p][i] = stage

InRegistry(plan) == \A i \in 1..Len(plan) : Registered(plan[i])

InUnitInterval(c) == c.kind = "num" /\ 0 <= c.val /\ c.val <= 100

\* C1: create_plan never lets an exception reach its caller; whatever the
\* collaborators return or raise, the call ends with a PlanGenerationResult.
C1_NeverPropagates ==
  \A p \in Procs : pc[p] # "Propagated" /\ (Returned(p) => result[p].valid)

C1_Witness ==
  \E p \in Procs :
    /\ Returned(p) /\ Entered(p, "Except")
    /\ result[p].reasoning = Reason("error", 0, <<"TypeError">>)

\* C2: a call moves along the edges Start -> CacheCheck -> Hit -> Return, or
\* Miss -> SelectStrategy -> Generate -> [Validate] -> CacheStore -> Return, with
\* exceptions going to Except -> Return; it enters no stage twice, and every
\* call that has started reaches Return.
StageEdges ==
  {<<"CacheCheck", "CacheFetch">>, <<"CacheCheck", "Select">>,
   <<"CacheFetch", "CacheIncr">>, <<"CacheFetch", "CacheEvict">>,
   <<"CacheFetch", "Except">>, <<"CacheIncr", "Return">>,
   <<"CacheEvict", "Select">>, <<"CacheEvict", "Except">>,
   <<"Select", "Curriculum">>, <<"Select", "Model">>, <<"Select", "RuleBased">>,
   <<"Curriculum", "CacheStore">>, <<"Curriculum", "Model">>,
   <<"Curriculum", "RuleBased">>, <<"Model", "Validate">>, <<"Model", "RuleBased">>,
   <<"Validate", "CacheStore">>, <<"Validate", "RuleBased">>,
   <<"RuleBased", "CacheStore">>, <<"CacheStore", "Cleanup">>,
   <<"CacheStore", "Finish">>, <<"CacheStore", "Except">>, <<"Cleanup", "Finish">>,
   <<"Cleanup", "Except">>, <<"Finish", "Return">>, <<"Finish", "Except">>,
   <<"Except", "Return">>}

FollowsStateMachine(t) ==
  /\ t # <<>> => t[1] \in {"CacheCheck", "Select"}
  /\ \A i \in 1..(Len(t) - 1) : <<t[i], t[i + 1]>> \in StageEdges
  /\ \A i, j \in 1..Len(t) : i # j => t[i] # t[j]

Running(p) == pc[p] \notin {"idle", "Return", "Propagated"}

C3_NonEmptyPlan ==
  \A p \in Procs :
    Returned(p) /\ DOMAIN registered_skills # {} => result[p].plan # <<>>

\* C4: every skill named in a plan returned by a call that is not a cache hit
\* is registered when the plan is produced.
C4_PlanSkillsRegistered ==
  \A p \in Procs : Returned(p) /\ ~result[p].cache_hit => InRegistry(result[p].plan)

\* C5: the returned plan never has more than max_plan_length elements.
C5_PlanLengthBounded ==
  \A p \in Procs : Returned(p) => Len(result[p].plan) <= config.max_plan_length

\* C6: the confidence of every returned result is a number in [0,1].
C6_ConfidenceInUnitInterval ==
  \A p \in Procs : Returned(p) => InUnitInterval(result[p].confidence)

\* The plan list of the JSON object the model's text holds, when it holds one.
Candidate(response) ==
  IF Find(response, "{") >= 1 /\ RFind(response, "}") >= Find(response, "{")
  THEN JsonLoads(SubSeq(response, Find(response, "{"), RFind(response, "}")))
  ELSE JsonLoads(<<>>)

HasUnknownElement(response) ==
  /\ Candidate(response).ok
  /\ Candidate(response).data.has_plan /\ Candidate(response).data.plan_is_list
  /\ ~InRegistry(Candidate(response).data.plan)

\* C7: when the model's candidate plan names a skill that is not registered,
\* none of it is kept: the call returns the rule-based planner's result, with
\* fallback_used set.
C7_UnknownSkillRejected ==
  \A p \in Procs :
    Returned(p) /\ Entered(p, "Validate") /\ HasUnknownElement(local[p].response)
      => /\ result[p] = _generate_fallback_plan(uif[p])
         /\ result[p].fallback_used

C7_Witness ==
  \E p \in Procs :
    /\ Returned(p) /\ Entered(p, "Validate")
    /\ HasUnknownElement(local[p].response)
    /\ Registered(Candidate(local[p].response).data.plan[1])


\* Steps of a call, as seen from the two states of a transition.
HitStep(p) == pc[p] = "CacheIncr" /\ pc'[p] = "Return"

StoreStep(p) == pc[p] = "CacheStore" /\ pc'[p] = "Cleanup"

ReturnStep(p) == pc[p] # "Return" /\ pc'[p] = "Return"

\* C8: with caching on, a call that caches the plan it generated stores it as
\* it returns it (usage counter 0); the entry keeps that plan and confidence
\* as long as it stays in the cache; a later call with the same query, profile
\* and registry names finds it and, while it is valid, returns its plan and
\* confidence with cache_hit set, and the hit adds exactly 1 to the entry's
\* usage counter.
C8_CacheDeterminism ==
  [][\A p \in Procs :
       LET key == _generate_query_hash(uif[p])
       IN /\ (pc[p] = "CacheCheck" /\ pc'[p] # "CacheCheck")
               => (pc'[p] = "CacheFetch" <=> key \in DOMAIN plan_cache)
          /\ (pc[p] = "CacheFetch" /\ pc'[p] # "CacheFetch")
               => (pc'[p] = "CacheIncr" <=> _is_cache_entry_valid(plan_cache[key]))
          /\ HitStep(p)
               => /\ result'[p].cache_hit
                  /\ result'[p].plan = plan_cache[key].plan
                  /\ result'[p].confidence = plan_cache[key].confidence
                  /\ plan_cache' =
                       [plan_cache EXCEPT ![key].usage_count = plan_cache[key].usage_count + 1]
          /\ StoreStep(p)
               => /\ plan_cache'[key].plan = result[p].plan
                  /\ plan_cache'[key].confidence = result[p].confidence
                  /\ plan_cache'[key].usage_count = 0
          /\ (ReturnStep(p) /\ Entered(p, "Cleanup"))
               => /\ result'[p] = result[p]
                  /\ plan_cache'[key].plan = result'[p].plan
                  /\ plan_cache'[key].confidence = result'[p].confidence
          /\ \A k \in DOMAIN plan_cache \cap DOMAIN plan_cache' :
               \/ plan_cache'[k].plan = plan_cache[k].plan
                  /\ plan_cache'[k].confidence = plan_cache[k].confidence
               \/ \E q \in Procs : StoreStep(q) /\ k = _generate_query_hash(uif[q])
    ]_vars

C8_Witness ==
  \E p \in Procs :
    /\ Returned(p) /\ result[p].cache_hit
    /\ plan_cache[local[p].query_hash].usage_count = 1
    /\ result[p].plan = <<"MemoryRetrievalSkill", "ConflictDetectorSkill",
                         "ResponseGenerationSkill">>

\* C9 as stated: once a registration has changed the registry, no call is
\* served from an entry stored before that change.
C9_NoHitOnEarlierEntry ==
  \A p \in Procs :
    Returned(p) /\ result[p].cache_hit => local[p].query_hash \notin outdated

\* C9, amended: a registration that changes the names or a version changes
\* the registry fingerprint; no call is served from an entry
\* whose fingerprint differs from the current one; a lookup that finds such an
\* entry evicts it and the call regenerates, with cache_hit false. (An entry is
\* served again once registrations have restored the name:version set it was
\* stored under.)
C9_FingerprintInvalidates ==
  [][/\ registered_skills' # registered_skills
          => _generate_skill_context' # _generate_skill_context
     /\ \A p \in Procs :
          LET key == _generate_query_hash(uif[p])
          IN /\ HitStep(p) => plan_cache[key].skill_context = _generate_skill_context
             /\ (pc[p] = "CacheFetch" /\ pc'[p] # "CacheFetch"
                 /\ plan_cache[key].skill_context # _generate_skill_context)
                  => pc'[p] = "CacheEvict"
             /\ (pc[p] = "CacheEvict" /\ pc'[p] # "CacheEvict")
                  => pc'[p] = "Select" /\ key \notin DOMAIN plan_cache'
             /\ (ReturnStep(p) /\ Entered(p, "CacheEvict"))
                  => ~result'[p].cache_hit /\ Entered(p, "Select")
    ]_vars

C9_Witness ==
  \E p \in Procs :
    /\ Returned(p) /\ Entered(p, "CacheEvict") /\ now = 0
    /\ ~result[p].cache_hit
    /\ Registered("ResponseGenerationSkill")
    /\ registered_skills["ResponseGenerationSkill"] = "2.0"

\* C10: a lookup at a time T + ttl or later never hits an entry created at T.
C10_NoHitAtTtl ==
  \A p \in Procs :
    Returned(p) /\ result[p].cache_hit
      => now - plan_cache[local[p].query_hash].created_at < config.plan_cache_ttl

\* Stage `b` was entered right after stage `a`.
Follows(p, a, b) ==
  \E i \in 1..(Len(trail[p]) - 1) : trail[p][i] = a /\ trail[p][i + 1] = b

\* The call has just generated its result (it stands at the test of line 165).
Generated(p) == pc[p] = "CacheStore"

CurriculumSucceeded(p) == Follows(p, "Curriculum", "CacheStore")

\* The model was called and what it returned passes _validate_generated_plan.
ModelValidated(p) ==
  Entered(p, "Validate") /\ _parse_llm_response(local[p].response).ok

ModelProducedPlan(p) ==
  ModelValidated(p) /\ _parse_llm_response(local[p].response).data.plan # <<>>

\* Which strategies run on a miss, given which of them succeeded.
StrategyPriority(p, model_succeeded) ==
  /\ Entered(p, "Curriculum") <=> curriculum
  /\ CurriculumSucceeded(p)
       => /\ result[p].reasoning.kind = "curriculum"
          /\ ~Entered(p, "Model") /\ ~Entered(p, "RuleBased")
  /\ Entered(p, "Model") <=> (llm_model /\ ~CurriculumSucceeded(p))
  /\ (~CurriculumSucceeded(p) /\ model_succeeded)
       => /\ result[p] = LLMResult(uif[p], local[p].response)
          /\ result[p].valid /\ ~result[p].fallback_used
          /\ ~Entered(p, "RuleBased")
  /\ Entered(p, "RuleBased") <=> (~CurriculumSucceeded(p) /\ ~model_succeeded)
  /\ Entered(p, "RuleBased") => result[p] = _generate_fallback_plan(uif[p])

RequestAtStart(p) == [uif[p] EXCEPT !.intermediate_data = local[p].bag_at_start]

\* The cache a call leaves behind when it finds `cache`, misses, and generates `r`.
CacheAfterMiss(cache, u, r) ==
  LET key == _generate_query_hash(u)
      missed == IF config.enable_plan_caching /\ key \in DOMAIN cache
                THEN CacheDel(cache, key) ELSE cache
  IN IF ShouldCache(r)
     THEN _cleanup_cache(
            CachePut(missed, key,
                     PlanCacheEntry(r.plan, r.confidence, now, 0, key,
                                    _generate_skill_context)))
     ELSE missed

\* The model gave the call nothing: there is none, its call raised, or what it
\* returned held no plan that could be extracted, parsed and validated.
ModelGaveNothing(p) ==
  \/ ~llm_model
  \/ Entered(p, "Model") /\ ~Entered(p, "Validate")
  \/ Entered(p, "Validate") /\ ~ModelProducedPlan(p)

\* C12: with no curriculum, a call that misses the cache returns the same
\* result (plan, confidence, reasoning, fallback_used set) and leaves the same
\* bag and cache whether no model is configured, the model raises, or the
\* model's text fails extraction, parsing or validation: all three are a
\* function of the request, the registry and the cache the call found.
C12_FailingModelIsNoModel ==
  \A p \in Procs :
    (Returned(p) /\ ~curriculum /\ Entered(p, "Select") /\ ModelGaveNothing(p))
      => /\ result[p] = _generate_fallback_plan(RequestAtStart(p))
         /\ result[p].fallback_used
         /\ uif[p].intermediate_data =
              FallbackBag(local[p].bag_at_start, Lower(uif[p].input_query))
         /\ plan_cache = CacheAfterMiss(local[p].cache_at_start, uif[p], result[p])

C12_Witness ==
  \E p \in Procs :
    /\ Returned(p) /\ ~curriculum /\ llm_model
    /\ Follows(p, "Validate", "RuleBased")
    /\ Find(local[p].response, "{") >= 1
    /\ local[p].query_hash \in DOMAIN plan_cache
    /\ local[p].cache_at_start # <<>>

\* MemoryRetrievalSkill then ResponseGenerationSkill, restricted to those
\* registered, or a bare ResponseGenerationSkill.
MinimalDefaultPlan ==
  LET core == SelectSeq(<<"MemoryRetrievalSkill", "ResponseGenerationSkill">>,
                        LAMBDA n : Registered(n))
  IN IF core = <<>> THEN <<"ResponseGenerationSkill">> ELSE core

\* C13: when an exception escapes cache lookup, generation, validation or
\* cache store, the call returns the default plan with confidence 0.3,
\* fallback_used set, cache_hit clear and a reasoning that holds the
\* exception's message.
C13_ExceptionFallback ==
  \A p \in Procs :
    (Returned(p) /\ Entered(p, "Except"))
      => /\ result[p].plan = MinimalDefaultPlan
         /\ result[p].confidence = Num(30)
         /\ result[p].fallback_used /\ ~result[p].cache_hit
         /\ result[p].reasoning.kind = "error"
         /\ result[p].reasoning.parts = <<local[p].exc>>
         /\ local[p].exc # ""

C13_Witness ==
  \E p \in Procs :
    /\ Returned(p) /\ Entered(p, "Except")
    /\ local[p].raised_at = "CacheStore"
    /\ result[p].plan = <<"MemoryRetrievalSkill", "ResponseGenerationSkill">>

\* The call stored what it returns: an entry under the request's key with the
\* result's plan and confidence, unused, stamped with the current registry.
StoredAsReturned(p) ==
  LET key == _generate_query_hash(uif[p])
  IN /\ key \in DOMAIN plan_cache
     /\ plan_cache[key].plan = result[p].plan
     /\ plan_cache[key].confidence = result[p].confidence
     /\ plan_cache[key].usage_count = 0
     /\ plan_cache[key].skill_context = _generate_skill_context
     /\ plan_cache[key].query_hash = key

HighConfidence(r) == r.confidence.kind = "num" /\ r.confidence.val > 50

\* A result of confidence 0.5 or less is never stored: the call leaves no
\* entry under its key, and no entry of the cache has such a confidence.
LowConfidenceNeverStored ==
  /\ \A p \in Procs :
       (Returned(p) /\ ~result[p].cache_hit /\ ~HighConfidence(result[p]))
         => _generate_query_hash(uif[p]) \notin DOMAIN plan_cache
  /\ \A k \in DOMAIN plan_cache : HighConfidence(plan_cache[k])

\* C14 as stated: after a call that is not a hit, with caching on and a
\* confidence above 0.5, the cache holds the result under the request's key.
C14_HighConfidenceStored ==
  \A p \in Procs :
    (Returned(p) /\ ~result[p].cache_hit /\ config.enable_plan_caching
       /\ HighConfidence(result[p]))
      => StoredAsReturned(p)

\* C14, amended: after a call that is not a hit, with caching on, a non-empty
\* plan and a confidence above 0.5, the cache holds an entry under the
\* request's key with that plan and confidence, usage counter 0 and the
\* current registry fingerprint; a result of confidence 0.5 or less (the 0.3
\* exception fallback included) is never stored.
C14_CacheStoreRule ==
  /\ \A p \in Procs :
       (Returned(p) /\ ~result[p].cache_hit /\ config.enable_plan_caching
          /\ HighConfidence(result[p]) /\ result[p].plan # <<>>)
         => StoredAsReturned(p)
  /\ LowConfidenceNeverStored

C14_Witness ==
  \E p \in Procs :
    /\ Returned(p) /\ ~result[p].cache_hit /\ config.enable_plan_caching
    /\ result[p].reasoning.kind = "llm" /\ result[p].confidence = Num(90)
    /\ StoredAsReturned(p)
    /\ \E q \in Procs : Returned(q) /\ Entered(q, "CacheCheck")

\* C15: fallback_used is set exactly when the returned plan came from the
\* rule-based planner or the exception handler, for fresh results and for
\* cache hits alike. (With neither curriculum nor model configured, every
\* plan the cache holds came from the rule-based planner.)
C15_FallbackFlagAccurate ==
  \A p \in Procs :
    Returned(p)
      => IF result[p].cache_hit
         THEN (~curriculum /\ ~llm_model) => result[p].fallback_used
         ELSE result[p].fallback_used
                <=> (Entered(p, "RuleBased") \/ Entered(p, "Except"))

\* The rule-based planner has just produced the call's result.
RuleBasedProduced(p) == Generated(p) /\ Entered(p, "RuleBased")

\* C16: every result of the rule-based planner has confidence 0.6,
\* fallback_used set and cache_hit clear, the default plan included.
C16_RuleBasedConstants ==
  \A p \in Procs :
    RuleBasedProduced(p)
      => /\ result[p].confidence = Num(60)
         /\ result[p].fallback_used /\ ~result[p].cache_hit

C16_Witness ==
  \E p \in Procs :
    /\ RuleBasedProduced(p)
    /\ result[p].reasoning.parts = <<"Used default fallback plan">>
    /\ result[p].confidence = Num(60)

Occurrences(plan, name) == Cardinality({i \in 1..Len(plan) : plan[i] = name})

\* C17: a rule-based plan ends with ResponseGenerationSkill, which occurs in
\* it exactly once, whenever that skill is registered.
C17_ResponseGenerationLast ==
  \A p \in Procs :
    (RuleBasedProduced(p) /\ Registered("ResponseGenerationSkill"))
      => /\ result[p].plan # <<>>
         /\ result[p].plan[Len(result[p].plan)] = "ResponseGenerationSkill"
         /\ Occurrences(result[p].plan, "ResponseGenerationSkill") = 1

C17_Witness ==
  \E p \in Procs :
    /\ RuleBasedProduced(p)
    /\ result[p].plan = <<"MemoryRetrievalSkill", "ConflictDetectorSkill",
                         "ImplicitKnowledgeSkill", "ResponseGenerationSkill">>

\* C18: the mode written for the query is VECTOR without a graph backend;
\* with one it is HYBRID if h > 0 or (g > 0 and v > 0), else GRAPH if g > v,
\* else VECTOR if v > 0, else AUTO, for the keyword scores h, g, v.
C18_RetrievalMode ==
  \A p \in Procs :
    (RuleBasedProduced(p) /\ Registered("MemoryRetrievalSkill"))
      => LET query_lower == Lower(uif[p].input_query)
             h == Score(query_lower, hybrid_indicators)
             g == Score(query_lower, graph_indicators)
             v == Score(query_lower, vector_indicators)
             mode == uif[p].intermediate_data.search_context.retrieval_mode
         IN /\ uif[p].intermediate_data.has_search_context
            /\ ~graph_database => mode = "VECTOR"
            /\ (graph_database /\ (h > 0 \/ (g > 0 /\ v > 0))) => mode = "HYBRID"
            /\ (graph_database /\ h = 0 /\ ~(g > 0 /\ v > 0) /\ g > v) => mode = "GRAPH"
            /\ (graph_database /\ h = 0 /\ ~(g > 0 /\ v > 0) /\ g <= v /\ v > 0)
                 => mode = "VECTOR"
            /\ (graph_database /\ h = 0 /\ g = 0 /\ v = 0) => mode = "AUTO"

\* Every mode is chosen for some query.
C18_Witness ==
  \E p \in Procs :
    /\ RuleBasedProduced(p) /\ Registered("MemoryRetrievalSkill") /\ graph_database
    /\ uif[p].intermediate_data.search_context.retrieval_mode = "GRAPH"
    /\ Score(Lower(uif[p].input_query), graph_indicators) = 1
    /\ local[p].bag_at_start.has_search_context
    /\ local[p].bag_at_start.search_context.retrieval_mode = "HYBRID"

\* C19: when stages 1-5 select no skill, the plan is MemoryRetrievalSkill and
\* ResponseGenerationSkill as far as they are registered, and empty when
\* neither is.
C19_MinimalDefaultPlan ==
  \A p \in Procs :
    (RuleBasedProduced(p) /\ FallbackStagePlan(Lower(uif[p].input_query)) = <<>>)
      => result[p].plan =
           SelectSeq(<<"MemoryRetrievalSkill", "ResponseGenerationSkill">>,
                     LAMBDA n : Registered(n))

\* C20: while enable_plan_caching is false no step of a create_plan call
\* changes the cache (its entries and their usage counters), and every
\* result returned has cache_hit clear.
C20_CachingOffLeavesCache ==
  [][~config.enable_plan_caching
       => /\ plan_cache' = plan_cache
          /\ \A p \in Procs :
               (pc'[p] = "Return" /\ pc[p] # "Return") => ~result'[p].cache_hit]_vars

\* A call made with caching off returns a plan the cache holds under the
\* call's own key, stored while caching was on.
C20_Witness ==
  \E p \in Procs :
    /\ Returned(p) /\ ~config.enable_plan_caching
    /\ ~result[p].cache_hit
    /\ _generate_query_hash(uif[p]) \in DOMAIN plan_cache
    /\ plan_cache[_generate_query_hash(uif[p])].plan = result[p].plan
    /\ plan_cache = local[p].cache_at_start

\* The call found the cache empty when it started.
FoundCacheEmpty(p) == pc[p] # "idle" /\ local[p].cache_at_start = <<>>

\* C21: clear_cache removes every entry and leaves the registry as it is; a
\* call that finds the cache as clear_cache left it is a miss and generates
\* its plan again.
C21_ClearCacheEmpties ==
  /\ [][clear_cache => /\ plan_cache' = <<>>
                       /\ registered_skills' = registered_skills]_vars
  /\ [](\A p \in Procs :
          (FoundCacheEmpty(p) /\ Returned(p))
            => /\ ~result[p].cache_hit
               /\ Entered(p, "Select")
               /\ result[p].plan = _generate_fallback_plan(uif[p]).plan)

\* Three calls were made with caching on, no time passed and the registry did
\* not change, yet the third is a miss and its entry the only one: the cache
\* was cleared after an earlier call had stored its plan.
C21_Witness ==
  \E p \in Procs :
    /\ config.enable_plan_caching /\ now = 0 /\ regs = 0
    /\ calls = MaxCalls
    /\ Returned(p) /\ ~result[p].cache_hit /\ FoundCacheEmpty(p)
    /\ DOMAIN plan_cache = {_generate_query_hash(uif[p])}
    /\ plan_cache[_generate_query_hash(uif[p])].usage_count = 0

\* One element for every time an entry of the cache was reused.
UsagePairs(cache) ==
  UNION {{<<key, i>> : i \in 1..cache[key].usage_count} : key \in DOMAIN cache}

\* The dictionary describes the cache.
StatsDescribe(s, cache) ==
  /\ s.total_entries = Cardinality(DOMAIN cache)
  /\ s.total_usage = Cardinality(UsagePairs(cache))
  /\ IF DOMAIN cache = {}
     THEN s.average_usage = Num(0)
     ELSE /\ s.average_usage.kind = "float"
          /\ s.average_usage.den # 0
          /\ s.average_usage.num * s.total_entries
               = s.total_usage * s.average_usage.den
  /\ s.cache_enabled = config.enable_plan_caching

\* The usage counter of an entry that stays in the cache goes up by one on a
\* hit of that entry and with no other step.
CountersCountHits ==
  \A key \in DOMAIN plan_cache \cap DOMAIN plan_cache' :
    plan_cache'[key].usage_count =
      plan_cache[key].usage_count
        + (IF \E p \in Procs : HitStep(p) /\ local[p].query_hash = key THEN 1 ELSE 0)

\* C22: get_cache_stats returns the number of entries stored, the sum of
\* their usage counters (the hits those entries served), the quotient of the
\* two (0 for an empty cache) and the caching flag, and leaves the cache alone.
C22_StatsDescribeCache ==
  /\ [][(get_cache_stats \/ stats' # stats)
          => (StatsDescribe(stats', plan_cache) /\ plan_cache' = plan_cache)]_vars
  /\ [][CountersCountHits]_vars

\* Statistics taken of two entries, one of them reused once.
C22_Witness ==
  /\ stats.taken
  /\ stats.total_entries = 2 /\ stats.total_usage = 1
  /\ stats.average_usage = TrueDiv(1, 2)
  /\ stats = CacheStats

\* The skills (name, version) the registrations are checked for.
UpsertInputs ==
  {"MemoryRetrievalSkill", "ConflictDetectorSkill", "ResponseGenerationSkill"}
    \X {"1.0", "2.0"}

\* What one register_skill(name, version) step does to registry and cache.
Upsert(name, version) ==
  /\ DOMAIN registered_skills' = DOMAIN registered_skills \cup {name}
  /\ registered_skills'[name] = version
  /\ \A n \in DOMAIN registered_skills \ {name} :
       registered_skills'[n] = registered_skills[n]
  /\ plan_cache' = plan_cache
  /\ name \in DOMAIN registered_skills
       => /\ Cardinality(DOMAIN registered_skills')
               = Cardinality(DOMAIN registered_skills)
          /\ SortedKeysStr' = SortedKeysStr
          /\ (_generate_skill_context' # _generate_skill_context)
               <=> (registered_skills[name] # version)
          /\ registered_skills[name] = version
               => registered_skills' = registered_skills

\* C23: register_skill is an upsert keyed by name: registering a skill again
\* changes nothing; registering another skill under a registered name
\* replaces it, keeps the names, and changes the registry fingerprint exactly
\* when the version differs; the cache is not touched.
C23_RegisterIsUpsert ==
  [][\A skill \in UpsertInputs :
       register_skill(skill[1], skill[2]) => Upsert(skill[1], skill[2])]_vars

\* ResponseGenerationSkill was registered again with another version while the
\* cache held a plan stored under the earlier one.
C23_Witness ==
  /\ regs > 0
  /\ Registered("ResponseGenerationSkill")
  /\ registered_skills["ResponseGenerationSkill"] = "2.0"
  /\ \E key \in DOMAIN plan_cache :
       /\ plan_cache[key].skill_context # _generate_skill_context
       /\ \E i \in 1..Len(plan_cache[key].skill_context) - 2 :
            /\ plan_cache[key].skill_context[i] = "ResponseGenerationSkill"
            /\ plan_cache[key].skill_context[i + 2] = "1.0"

\* C24: when the rule-based planner has run with MemoryRetrievalSkill
\* registered, the request's bag holds the chosen mode under search_context;
\* graph_depth and max_results = 15 are written exactly when the mode is GRAPH
\* or HYBRID; the caller's other keys stay; without the skill the bag is as
\* the caller passed it.
C24_BagFrame ==
  \A p \in Procs :
    (RuleBasedProduced(p) \/ (Returned(p) /\ Entered(p, "RuleBased")))
      => LET before == local[p].bag_at_start
             after == uif[p].intermediate_data
             query_lower == Lower(uif[p].input_query)
             mode == after.search_context.retrieval_mode
         IN IF Registered("MemoryRetrievalSkill")
            THEN /\ after.has_search_context
                 /\ mode = _determine_retrieval_mode(query_lower)
                 /\ mode \in {"GRAPH", "HYBRID"}
                      => /\ after.search_context.graph_depth
                              = _determine_graph_depth(query_lower)
                         /\ after.search_context.max_results = 15
                 /\ mode \notin {"GRAPH", "HYBRID"}
                      => /\ after.search_context.graph_depth
                              = before.search_context.graph_depth
                         /\ after.search_context.max_results
                              = before.search_context.max_results
                 /\ after.other_keys = before.other_keys
            ELSE after = before

\* A bag with a key of the caller's own got a graph search_context.
C24_Witness ==
  \E p \in Procs :
    /\ Returned(p) /\ Entered(p, "RuleBased") /\ Registered("MemoryRetrievalSkill")
    /\ local[p].bag_at_start.other_keys = {"session_id"}
    /\ ~local[p].bag_at_start.has_search_context
    /\ uif[p].intermediate_data.other_keys = {"session_id"}
    /\ uif[p].intermediate_data.search_context.retrieval_mode = "HYBRID"
    /\ uif[p].intermediate_data.search_context.max_results = 15

\* The depth the claim states for a query.
DepthByPrecedence(query_lower) ==
  IF AnyIn(query_lower, deep_indicators) THEN 4
  ELSE IF AnyIn(query_lower, depth_multi_hop_indicators) THEN 3
  ELSE IF AnyIn(query_lower, simple_indicators) THEN 1
  ELSE 2

\* C25: the depth written is 4 for a deep term, else 3 for a chain term, else
\* 1 for a direct term, else 2, always within 1..4; it is written only when
\* the retrieval mode is GRAPH or HYBRID.
C25_GraphDepth ==
  \A p \in Procs :
    (RuleBasedProduced(p) /\ Registered("MemoryRetrievalSkill"))
      => LET query_lower == Lower(uif[p].input_query)
             search_context == uif[p].intermediate_data.search_context
         IN IF search_context.retrieval_mode \in {"GRAPH", "HYBRID"}
            THEN /\ search_context.graph_depth = DepthByPrecedence(query_lower)
                 /\ search_context.graph_depth \in 1..4
            ELSE search_context.graph_depth
                   = local[p].bag_at_start.search_context.graph_depth

\* A query with a deep term and a chain term gets depth 4.
C25_Witness ==
  \E p \in Procs :
    /\ RuleBasedProduced(p) /\ Registered("MemoryRetrievalSkill")
    /\ AnyIn(Lower(uif[p].input_query), deep_indicators)
    /\ AnyIn(Lower(uif[p].input_query), depth_multi_hop_indicators)
    /\ uif[p].intermediate_data.search_context.retrieval_mode \in {"GRAPH", "HYBRID"}
    /\ uif[p].intermediate_data.search_context.graph_depth = 4
    /\ local[p].bag_at_start.search_context.graph_depth # 4

InPlan(plan, name) == \E i \in 1..Len(plan) : plan[i] = name

\* The lower-cased query contains one of the words.
HasWord(query, words) ==
  \E i \in 1..Len(query) : Lower(query)[i] \in words

\* C26: a rule-based plan contains ConflictDetectorSkill exactly when the
\* lower-cased query contains compare, versus, different, conflicting or
\* sources and the skill is registered; with MemoryRetrievalSkill,
\* ConflictDetectorSkill and ResponseGenerationSkill registered and such a
\* query the plan is those three in that order.
C26_ConflictDetection ==
  \A p \in Procs :
    RuleBasedProduced(p)
      => LET comparison ==
               HasWord(uif[p].input_query,
                       {"compare", "versus", "different", "conflicting", "sources"})
         IN /\ InPlan(result[p].plan, "ConflictDetectorSkill")
                 <=> (comparison /\ Registered("ConflictDetectorSkill"))
            /\ (comparison
                /\ DOMAIN registered_skills
                     = {"MemoryRetrievalSkill", "ConflictDetectorSkill",
                        "ResponseGenerationSkill"})
                 => result[p].plan = <<"MemoryRetrievalSkill", "ConflictDetectorSkill",
                                       "ResponseGenerationSkill">>

\* Scenario A with a query that also has a relational term.
C26_Witness ==
  \E p \in Procs :
    /\ RuleBasedProduced(p)
    /\ DOMAIN registered_skills
         = {"MemoryRetrievalSkill", "ConflictDetectorSkill", "ResponseGenerationSkill"}
    /\ uif[p].input_query = <<"x", "versus", "y", "between">>
    /\ result[p].plan = <<"MemoryRetrievalSkill", "ConflictDetectorSkill",
                         "ResponseGenerationSkill">>

\* C27: a rule-based plan contains ImplicitKnowledgeSkill exactly when the
\* lower-cased query contains a relational term and the skill is registered;
\* with ResponseGenerationSkill registered as well the plan then ends with
\* ImplicitKnowledgeSkill, ResponseGenerationSkill.
C27_ImplicitKnowledge ==
  \A p \in Procs :
    RuleBasedProduced(p)
      => LET plan == result[p].plan
             relational == AnyIn(Lower(uif[p].input_query), multi_hop_indicators)
         IN /\ InPlan(plan, "ImplicitKnowledgeSkill")
                 <=> (relational /\ Registered("ImplicitKnowledgeSkill"))
            /\ (InPlan(plan, "ImplicitKnowledgeSkill")
                /\ Registered("ResponseGenerationSkill"))
                 => /\ Len(plan) >= 2
                    /\ plan[Len(plan) - 1] = "ImplicitKnowledgeSkill"
                    /\ plan[Len(plan)] = "ResponseGenerationSkill"

\* A "how does" query planned with all four skills registered, and no
\* comparison term.
C27_Witness ==
  \E p \in Procs :
    /\ RuleBasedProduced(p)
    /\ uif[p].input_query = <<"how", "does", "x", "work">>
    /\ result[p].plan = <<"MemoryRetrievalSkill", "ImplicitKnowledgeSkill",
                         "ResponseGenerationSkill">>
    /\ Registered("ConflictDetectorSkill")

\* The call is running.
InCall(p) == pc[p] \notin {"idle", "Return", "Propagated"}

\* C28: a call that hits returns straight from the lookup, with neither the
\* curriculum nor the model nor the rule-based planner run; the cache has the
\* keys it had, every other entry as it was, and the hit entry as it was but
\* for its usage counter, one higher; the reasoning reports that new count;
\* the registry is not changed by the call.
C28_HitFrame ==
  /\ [](\A p \in Procs :
          (Returned(p) /\ result[p].cache_hit)
            => LET key == _generate_query_hash(uif[p])
                   before == local[p].cache_at_start
               IN /\ trail[p] = <<"CacheCheck", "CacheFetch", "CacheIncr", "Return">>
                  /\ uif[p] = NewUIF(uif[p].input_query, uif[p].active_profile,
                                     local[p].bag_at_start)
                  /\ key \in DOMAIN before
                  /\ DOMAIN plan_cache = DOMAIN before
                  /\ \A k \in DOMAIN before \ {key} : plan_cache[k] = before[k]
                  /\ plan_cache[key]
                       = [before[key] EXCEPT !.usage_count = before[key].usage_count + 1]
                  /\ result[p].reasoning
                       = Reason("cache", before[key].usage_count + 1, <<>>))
  /\ [][\A p \in Procs : InCall(p) => registered_skills' = registered_skills]_vars

\* A first hit in a planner with a curriculum, with an entry that is no
\* longer valid still in the cache under another key.
C28_Witness ==
  \E p \in Procs :
    /\ Returned(p) /\ result[p].cache_hit
    /\ curriculum
    /\ result[p].reasoning.count = 1
    /\ \E k \in DOMAIN plan_cache :
         /\ k # _generate_query_hash(uif[p])
         /\ ~_is_cache_entry_valid(plan_cache[k])

\* The entry is past its lifetime or was stored under another registry
\* fingerprint.
Invalid(entry) ==
  \/ now - entry.created_at > config.plan_cache_ttl
  \/ entry.skill_context # _generate_skill_context

\* A step of the lookup of call p.
LookupStep(p) ==
  pc[p] \in {"CacheCheck", "CacheFetch", "CacheIncr", "CacheEvict"} /\ pc'[p] # pc[p]

\* C29: a lookup that finds an invalid entry under the request's key removes
\* that entry, and the call is a miss; no step of a lookup adds, removes or
\* changes an entry under another key.
C29_LazyEviction ==
  [][\A p \in Procs :
       LET key == _generate_query_hash(uif[p])
       IN /\ (pc[p] = "CacheFetch" /\ pc'[p] # pc[p] /\ Invalid(plan_cache[key]))
               => pc'[p] = "CacheEvict"
          /\ (pc[p] = "CacheEvict" /\ pc'[p] # pc[p])
               => /\ pc'[p] = "Select"
                  /\ DOMAIN plan_cache' = DOMAIN plan_cache \ {key}
          /\ LookupStep(p)
               => /\ DOMAIN plan_cache' \ {key} = DOMAIN plan_cache \ {key}
                  /\ \A k \in DOMAIN plan_cache \ {key} : plan_cache'[k] = plan_cache[k]
          /\ (ReturnStep(p) /\ Entered(p, "CacheEvict")) => ~result'[p].cache_hit
    ]_vars

\* The lookup has just evicted the entry under the request's key; an entry
\* that is invalid too is still there under another key.
C29_Witness ==
  \E p \in Procs :
    /\ pc[p] = "Select" /\ Entered(p, "CacheEvict")
    /\ _generate_query_hash(uif[p]) \in DOMAIN local[p].cache_at_start
    /\ _generate_query_hash(uif[p]) \notin DOMAIN plan_cache
    /\ \E k \in DOMAIN plan_cache : Invalid(plan_cache[k])

\* The sweep that ends the store of call p.
SweepStep(p) == pc[p] = "Cleanup" /\ pc'[p] # pc[p]

\* C30: the store puts the new entry under the request's key and changes no
\* other; after the sweep that follows it the cache holds the new entry, no
\* invalid entry under another key, and every entry that was valid, unchanged.
C30_StoreSweeps ==
  [][\A p \in Procs :
       LET key == _generate_query_hash(uif[p])
       IN /\ StoreStep(p)
               => /\ DOMAIN plan_cache' = DOMAIN plan_cache \cup {key}
                  /\ \A k \in DOMAIN plan_cache \ {key} : plan_cache'[k] = plan_cache[k]
                  /\ plan_cache'[key]
                       = PlanCacheEntry(result[p].plan, result[p].confidence, now, 0,
                                        key, _generate_skill_context)
          /\ SweepStep(p)
               => /\ pc'[p] = "Finish"
                  /\ key \in DOMAIN plan_cache'
                  /\ plan_cache'[key] = plan_cache[key]
                  /\ \A k \in DOMAIN plan_cache' \ {key} : ~Invalid(plan_cache'[k])
                  /\ \A k \in DOMAIN plan_cache :
                       ~Invalid(plan_cache[k])
                         => k \in DOMAIN plan_cache' /\ plan_cache'[k] = plan_cache[k]
    ]_vars

\* The call found two entries under other keys, one of them no longer valid;
\* after its store and sweep that one is gone and the other kept as it was.
C30_Witness ==
  \E p \in Procs :
    LET key == _generate_query_hash(uif[p])
        before == local[p].cache_at_start
    IN /\ pc[p] = "Finish" /\ Entered(p, "Cleanup")
       /\ key \in DOMAIN plan_cache /\ key \notin DOMAIN before
       /\ Cardinality(DOMAIN before) = 2
       /\ \E k1, k2 \in DOMAIN before :
            /\ k1 \notin DOMAIN plan_cache
            /\ k2 \in DOMAIN plan_cache /\ plan_cache[k2] = before[k2]

\* The curriculum call of call p raised.
CurriculumRaised(p) ==
  Follows(p, "Curriculum", "Model") \/ Follows(p, "Curriculum", "RuleBased")

\* The step in which the curriculum call of call p returns.
CurriculumStep(p) == pc[p] = "Curriculum" /\ pc'[p] = "CacheStore"

\* The step copies a reply of the curriculum onto request and result.
CopiesReply(p) ==
  \E reply \in CurriculumReplies :
    /\ uif'[p] = [uif[p] EXCEPT !.curriculum_level = reply.curriculum_level,
                                !.complexity_score = reply.complexity_score,
                                !.reasoning_strategy = reply.reasoning_strategy,
                                !.estimated_effort = reply.estimated_effort]
    /\ result'[p].plan = reply.skills
    /\ result'[p].confidence = reply.confidence_threshold
    /\ ~result'[p].fallback_used /\ ~result'[p].cache_hit

\* What a call returns after its curriculum call, when `numeric` says which
\* generated results get through lines 165-173.
CurriculumOutcome(p, numeric) ==
  /\ CurriculumStep(p) => CopiesReply(p)
  /\ (ReturnStep(p) /\ CurriculumSucceeded(p) /\ numeric)
       => /\ result'[p] = result[p]
          /\ result'[p].reasoning.kind = "curriculum"
          /\ ~result'[p].fallback_used
  /\ (pc[p] = "Curriculum" /\ pc'[p] # pc[p] /\ ~CurriculumStep(p))
       => pc'[p] = IF llm_model THEN "Model" ELSE "RuleBased"
  /\ (ReturnStep(p) /\ CurriculumRaised(p) /\ numeric)
       => /\ result'[p].reasoning.kind \in {"llm", "rules"}
          /\ result'[p].confidence # Num(ErrorConfidence)

\* C31 as stated: what the curriculum returns is copied onto the request and
\* returned, with fallback_used clear; when the curriculum raises, the model
\* or else the rule-based planner generates, and the call does not return
\* the error fallback.
C31_CurriculumResultReturned ==
  [][\A p \in Procs : CurriculumOutcome(p, TRUE)]_vars

\* C31, amended: the same, for results whose confidence is a number; a
\* confidence that is not a number raises at line 165 or 171 and the call
\* returns the error fallback.
C31_CurriculumCopyAndFallThrough ==
  [][\A p \in Procs :
       /\ CurriculumOutcome(p, result[p].confidence.kind = "num")
       /\ (ReturnStep(p) /\ Entered(p, "CacheStore")
           /\ result[p].confidence.kind # "num")
            => /\ result'[p].reasoning.kind = "error"
               /\ result'[p].confidence = Num(ErrorConfidence)]_vars

\* The curriculum raised, the model raised, and the call returned the
\* rule-based plan with the request's curriculum fields unset.
C31_Witness ==
  \E p \in Procs :
    /\ Returned(p) /\ curriculum /\ llm_model
    /\ Follows(p, "Curriculum", "Model") /\ Follows(p, "Model", "RuleBased")
    /\ result[p] = _generate_fallback_plan(uif[p])
    /\ uif[p].curriculum_level = Unset

\* ---------------------------------------------------------------------- C32
\* The text the model answered has been parsed.
Parsed(p) == Entered(p, "Validate") /\ pc[p] # "Validate"

\* The plan field of the candidate is a list of registered skill names that is
\* no longer than max_plan_length.
AcceptablePlan(response) ==
  LET c == Candidate(response)
  IN /\ c.ok
     /\ c.data.has_plan
     /\ c.data.plan_is_list
     /\ InRegistry(c.data.plan)
     /\ Len(c.data.plan) <= config.max_plan_length

\* C32: _parse_llm_response never raises, returns the parsed candidate exactly
\* when the text from the first "{" to the last "}" parses as a JSON object
\* whose plan field is a list of registered skill names of length at most
\* max_plan_length, and returns None in every other case.
C32_ParseTotalAndExact ==
  \A p \in Procs :
    Parsed(p) =>
      LET parsed == _parse_llm_response(local[p].response)
      IN /\ parsed.exc = ""
         /\ parsed.ok <=> AcceptablePlan(local[p].response)
         /\ parsed.ok => parsed.data = Candidate(local[p].response).data

\* The part of C32 that is about the returned value: whenever nothing is
\* raised, the candidate is returned exactly for an acceptable plan field.
C32_ExactWhenNothingRaised ==
  \A p \in Procs :
    Parsed(p) /\ _parse_llm_response(local[p].response).exc = "" =>
      LET parsed == _parse_llm_response(local[p].response)
      IN /\ parsed.ok <=> AcceptablePlan(local[p].response)
         /\ parsed.ok => parsed.data = Candidate(local[p].response).data

\* ---------------------------------------------------------------------- C33
\* The bag of the request holds search_context.retrieval_mode.
HoldsRetrievalMode(bag) ==
  bag.has_search_context /\ bag.search_context.retrieval_mode # Absent

\* C33: with no curriculum and no model, whenever a call returns a plan that
\* contains MemoryRetrievalSkill the request's bag holds
\* search_context.retrieval_mode, also when the plan came from the cache and
\* the request's bag was empty.
C33_RetrievalModeOnReturn ==
  \A p \in Procs :
    (Returned(p) /\ ~curriculum /\ ~llm_model
       /\ InPlan(result[p].plan, "MemoryRetrievalSkill"))
      => HoldsRetrievalMode(uif[p].intermediate_data)

\* The same for the calls that did not hit the cache.
C33_RetrievalModeWhenGenerated ==
  \A p \in Procs :
    (Returned(p) /\ ~curriculum /\ ~llm_model /\ ~result[p].cache_hit
       /\ InPlan(result[p].plan, "MemoryRetrievalSkill"))
      => HoldsRetrievalMode(uif[p].intermediate_data)

\* ---------------------------------------------------------------------- C34
\* The search_context holds a graph_depth or a max_results key.
HoldsGraphParameters(bag) ==
  bag.has_search_context
    /\ (bag.search_context.graph_depth # 0 \/ bag.search_context.max_results # 0)

\* C34: after the rule-based planner has run, the search_context holds
\* graph_depth and max_results only if its retrieval_mode is GRAPH or HYBRID,
\* whatever the bag held before, a bag reused from an earlier call included.
C34_GraphParametersOnlyForGraphModes ==
  \A p \in Procs :
    (RuleBasedProduced(p) /\ Registered("MemoryRetrievalSkill")
       /\ HoldsGraphParameters(uif[p].intermediate_data))
      => uif[p].intermediate_data.search_context.retrieval_mode \in {"GRAPH", "HYBRID"}

\* The same for the requests that came without graph parameters in their bag.
C34_GraphParametersWhenBagHadNone ==
  \A p \in Procs :
    (RuleBasedProduced(p) /\ Registered("MemoryRetrievalSkill")
       /\ ~HoldsGraphParameters(local[p].bag_at_start)
       /\ HoldsGraphParameters(uif[p].intermediate_data))
      => uif[p].intermediate_data.search_context.retrieval_mode \in {"GRAPH", "HYBRID"}

\* ---------------------------------------------------------------------- C35
\* The TTL has elapsed since the entry was stored.
Expired(entry) == now - entry.created_at > config.plan_cache_ttl

\* C35: a hit leaves created_at as the store set it, and no step but a store
\* under the same key changes the created_at of an entry; a lookup that finds
\* an entry whose TTL has elapsed since its store does not serve it, however
\* often it was hit, and every result served from the cache comes from an
\* entry whose TTL has not elapsed; the entry a store creates has the current
\* time as created_at and usage counter 0.
C35_HitsDoNotExtendLifetime ==
  [][/\ \A p \in Procs :
          LET key == _generate_query_hash(uif[p])
          IN /\ HitStep(p)
                  => /\ key \in DOMAIN plan_cache'
                     /\ plan_cache'[key].created_at = plan_cache[key].created_at
                     /\ ~Expired(plan_cache'[key])
                     /\ result'[p].cache_hit
             /\ (pc[p] = "CacheFetch" /\ pc'[p] # pc[p] /\ Expired(plan_cache[key]))
                  => pc'[p] = "CacheEvict"
             /\ (ReturnStep(p) /\ result'[p].cache_hit) => HitStep(p)
             /\ StoreStep(p)
                  => /\ plan_cache'[key].created_at = now
                     /\ plan_cache'[key].usage_count = 0
     /\ \A k \in DOMAIN plan_cache \cap DOMAIN plan_cache' :
          plan_cache'[k].created_at # plan_cache[k].created_at
            => \E p \in Procs : StoreStep(p) /\ _generate_query_hash(uif[p]) = k
    ]_vars

\* An entry that was hit once expired all the same: the third call for its
\* query found it, evicted it and stored a new entry with usage counter 0.
C35_Witness ==
  \E p \in Procs :
    LET key == _generate_query_hash(uif[p])
        before == local[p].cache_at_start
    IN /\ Returned(p) /\ Entered(p, "CacheEvict") /\ Entered(p, "Cleanup")
       /\ key \in DOMAIN before /\ before[key].usage_count >= 1
       /\ before[key].skill_context = _generate_skill_context
       /\ key \in DOMAIN plan_cache
       /\ plan_cache[key].usage_count = 0
       /\ plan_cache[key].created_at = now
       /\ plan_cache[key].created_at > before[key].created_at

\* ---------------------------------------------------------------------- C36
\* The order in which the stages of the rule-based planner add their skills.
StageOrder ==
  <<"MemoryRetrievalSkill", "ConflictDetectorSkill", "ImplicitKnowledgeSkill",
    "ResponseGenerationSkill">>

\* The plan picks elements of seq at strictly increasing positions.
IsSubsequence(plan, seq) ==
  \E at \in [1..Len(plan) -> 1..Len(seq)] :
    /\ \A i \in 1..Len(plan) : plan[i] = seq[at[i]]
    /\ \A i, j \in 1..Len(plan) : i < j => at[i] < at[j]

\* C36: every plan of the rule-based planner is a subsequence of
\* [MemoryRetrievalSkill, ConflictDetectorSkill, ImplicitKnowledgeSkill,
\* ResponseGenerationSkill] in that order, without a duplicate and with at
\* most 4 elements, whatever the query and the registry.
C36_OrderedSubsequence ==
  \A p \in Procs :
    (RuleBasedProduced(p) \/ (Returned(p) /\ Entered(p, "RuleBased")))
      => /\ IsSubsequence(result[p].plan, StageOrder)
         /\ \A i, j \in 1..Len(result[p].plan) :
              i # j => result[p].plan[i] # result[p].plan[j]
         /\ Len(result[p].plan) <= 4

\* A query with a comparison word and a multi-hop word, with all four skills
\* registered, gets the four of them.
C36_Witness ==
  \E p \in Procs :
    /\ Returned(p) /\ Entered(p, "RuleBased")
    /\ result[p].plan = StageOrder

\* ---------------------------------------------------------------------- C37
\* The key of the request of query and profile r, whatever its bag.
KeyOf(r) == _generate_query_hash(NewUIF(r[1], r[2], EmptyBag))

\* The text contains the character the key is joined with.
HasBar(text) == \E i \in 1..Len(text) : text[i] = "|"

\* A call that was served from the cache got the plan of its own query and
\* profile: no request with another query or profile has its key, the plan is
\* the one the planner generates for the request, and the bag plays no part.
ServedOwnPlan(p) ==
  /\ \A r \in KeyRequests :
       KeyOf(r) = _generate_query_hash(uif[p])
         => r = <<uif[p].input_query, uif[p].active_profile>>
  /\ result[p].plan = _generate_fallback_plan(uif[p]).plan
  /\ \A bag \in KeyBags(p) :
       _generate_query_hash([uif[p] EXCEPT !.intermediate_data = bag])
         = _generate_query_hash(uif[p])

\* C37: under one registry, requests that differ in query or profile never
\* have the same cache key, so no call is served a plan cached for another
\* query or profile; requests that differ only in their bag share one key.
C37_KeysSeparateRequests ==
  \A p \in Procs : (Returned(p) /\ result[p].cache_hit) => ServedOwnPlan(p)

\* The same for the requests whose query and profile are free of "|".
C37_KeysSeparateBarFreeRequests ==
  \A p \in Procs :
    (Returned(p) /\ result[p].cache_hit
       /\ ~HasBar(uif[p].input_query) /\ ~HasBar(uif[p].active_profile))
      => ServedOwnPlan(p)

\* ---------------------------------------------------------------------- C38
\* Both calls were served from the cache, under one key.
BothHit(key) ==
  \A p \in Procs :
    Returned(p) /\ result[p].cache_hit /\ local[p].query_hash = key

\* C38: when two create_plan calls interleave statement by statement, with
\* caching on and no collaborator failing, no call raises inside its try
\* block and none returns the error fallback of confidence 0.3, and two hits
\* on one entry leave its usage counter 2 above what it was.
C38_InterleavedCallsSafe ==
  /\ \A p \in Procs :
       /\ pc[p] # "Except"
       /\ Returned(p) => result[p].confidence # Num(ErrorConfidence)
  /\ \A key \in DOMAIN plan_cache :
       BothHit(key)
         => \E p \in Procs :
              plan_cache[key].usage_count = local[p].cache_at_start[key].usage_count + 2

\* As long as only one of the threads has called, the same holds.
C38_OneAtATimeSafe ==
  (\A p \in Procs : trail[p] = <<>> \/ \A q \in Procs \ {p} : trail[q] = <<>>)
    => C38_InterleavedCallsSafe

\* A call that found its entry valid finds it in the cache until it has
\* counted its hit.
C38_HeldEntryStays ==
  \A p \in Procs :
    pc[p] \in {"CacheIncr", "CacheIncrStore"} => local[p].query_hash \in DOMAIN plan_cache

\* ---------------------------------------------------------------------- C39
\* The caller of call p changes the plan of the result it holds.
CallerStep(p) == pc[p] = "Return" /\ pc'[p] = "Return" /\ result'[p].plan # result[p].plan

\* C39: what a caller does to the plan list of a result it received leaves
\* the cache as it is, and every hit returns the plan as the planner
\* generated it for the request.
C39_CachedPlanIndependent ==
  [][\A p \in Procs :
       /\ CallerStep(p) => plan_cache' = plan_cache
       /\ HitStep(p) => result'[p].plan = _generate_fallback_plan(uif[p]).plan
    ]_vars

\* ---------------------------------------------------------------------- C40
\* The model's text validated, with an empty plan list.
ModelValidatedEmpty(p) ==
  ModelValidated(p) /\ _parse_llm_response(local[p].response).data.plan = <<>>

\* The result of call p is the model's: its plan, the confidence of the
\* response or 0.8 when the response has none, and fallback_used clear.
IsModelResult(p) ==
  LET data == _parse_llm_response(local[p].response).data
  IN /\ result[p].plan = data.plan
     /\ result[p].confidence
          = IF data.has_confidence THEN data.confidence ELSE Num(DefaultLLMConfidence)
     /\ ~result[p].fallback_used /\ ~result[p].cache_hit

\* What comes of the model's validated text, when `numeric` says which
\* generated results get through lines 165-173.
ModelOutcome(p, numeric) ==
  /\ ((Generated(p) \/ Returned(p)) /\ ModelValidatedEmpty(p))
       => /\ result[p] = _generate_fallback_plan(uif[p])
          /\ result[p].fallback_used
          /\ result[p].plan # <<>>
  /\ (Generated(p) /\ ModelProducedPlan(p)) => IsModelResult(p)
  /\ (Returned(p) /\ ModelProducedPlan(p) /\ numeric) => IsModelResult(p)

\* C40 as stated: a validated model plan that is empty is never the result,
\* create_plan returns the rule-based plan with fallback_used set; a validated
\* non-empty model plan is returned with fallback_used clear and the
\* confidence of the response, 0.8 when it has none.
C40_ModelPlanReturned ==
  \A p \in Procs : ModelOutcome(p, TRUE)

\* C40, amended: a validated model plan that is empty is never the result,
\* create_plan returns the rule-based plan with fallback_used set; a validated
\* non-empty model plan is the generated result, with fallback_used clear and
\* the confidence of the response, 0.8 when it has none, and it is returned
\* when that confidence is a number.
C40_ModelPlanGenerated ==
  \A p \in Procs :
    ModelOutcome(p, _parse_llm_response(local[p].response).data.confidence.kind = "num")

\* A validated empty plan was answered with the rule-based plan.
C40_Witness ==
  \E p \in Procs :
    /\ Returned(p) /\ ModelValidatedEmpty(p)
    /\ result[p].fallback_used /\ result[p].plan = <<"ResponseGenerationSkill">>
    /\ result[p].confidence = Num(RuleBasedConfidence)

====
